---- MODULE Spec2Model ----
\* The OAuth session manager of src/src/lib/oauth.ts (class OAuthManager and the
\* module-level singleton oauthManager) as a state machine.
\*
\* JavaScript runs the manager's async methods on one event loop: a method runs
\* without interruption from its call to its first `await`, and from one `await`
\* to the next.  Each such run is one action.  A call suspended at an `await` is a
\* continuation record in the bag `pending`; the environment (token endpoint,
\* extension bridge, digest) resumes it with a result it chooses.
EXTENDS Integers, Sequences, FiniteSets, Bags, TLC

VARIABLES
    localStorage,        \* window.localStorage restricted to the six bodhi_* keys
    isExchangingTokens,  \* OAuthManager.isExchangingTokens
    pending,             \* bag of the calls suspended at an await
    generated,           \* number of PKCE pairs generated so far
    requested,           \* history: the PKCE pairs a token-endpoint request was sent with
    last,                \* what the most recent run did: the call it belongs to and how it ended
    now,                 \* Date.now(), in milliseconds since the page was loaded
    bodhiext,            \* typeof window.bodhiext !== 'undefined'
    loader,              \* the loadExtensionClient call: where it stands and how it settled
    forwarded,           \* the calls made on window.bodhiext by bridge handles, in order
    calls,               \* bag of the handle calls awaiting window.bodhiext
    reply,               \* what the most recent run of a handle method did
    platformState,       \* usePlatformDetection: status and client
    authStatus,          \* useAuthentication: authStatus
    userInfo,            \* useAuthentication: userInfo
    authError,           \* useAuthentication: authError
    tasks,               \* bag of the coordinator's calls suspended at an await
    href,                \* the URL assigned to window.location.href, null if none
    detection,           \* the effect of usePlatformDetection: its mounted flag and where it stands
    callbackPage,        \* CallbackPage: its state, the effect's mounted flag, the navigation
    pkce,                \* a SHA-256 digest and the challenge generatePKCEChallenge encodes it to
    random               \* the bytes crypto.getRandomValues filled in and the string generateRandomString returns

vars == <<localStorage, isExchangingTokens, pending, generated, requested, last>>

\* The state of src/src/components/platform/PlatformStatusSection.tsx, lines
\* 89-193 (loadExtensionClient and ExtensionClientImpl).
extensionVars == <<now, bodhiext, loader, forwarded, calls, reply>>

\* The state of src/src/hooks/useAuthentication.ts and of the platformState it
\* is given (src/src/hooks/usePlatformDetection.ts).
coordinatorVars == <<platformState, authStatus, userInfo, authError, tasks, href>>

\* The state of the effects of src/src/hooks/usePlatformDetection.ts and
\* src/src/pages/CallbackPage.tsx.
pageVars == <<detection, callbackPage>>

\* The state of the encoding of generatePKCEChallenge and of
\* generateRandomString (src/src/lib/oauth.ts, lines 21-37).
pkceVars == <<pkce, random>>

----------------------------------------------------------------------------
\* Bounds of the model.

\* Most calls that may be suspended at an await at the same time.
MaxPending == 2

\* Most PKCE pairs buildAuthUrl generates in one behaviour.
MaxBuilds == 2

\* The longest timeout loadExtensionClient is called with, in clock ticks.
MaxTimeoutTicks == 4

\* The latest a timer fires after it is due, in clock ticks.
MaxLate == 1

\* Most calls bridge handles forward to window.bodhiext in one behaviour.
MaxForwarded == 2

\* Most times the effect of CallbackPage runs again on one page.
MaxReruns == 1

----------------------------------------------------------------------------
\* Values.

\* STORAGE_KEYS: the six persisted keys.
STORAGE_KEYS ==
    { "bodhi_resource_scope", "bodhi_access_token", "bodhi_refresh_token",
      "bodhi_code_verifier", "bodhi_state", "bodhi_user_info" }

\* localStorage.getItem gives null for a key that is not stored.  A stored string
\* v is <<v>>, null is <<>>.
Null == << >>

Str(v) == << v >>

\* JavaScript truthiness of a getItem result, and of an optional string field.
Truthy(x) == x # Null

\* PKCEUtils.generateRandomString: the k-th pair generated is the pair of strings
\* named k.  Two draws of 32 (128) random letters are taken to differ, so equal
\* names mean the same buildAuthUrl invocation.  The string 0 is one that
\* generateRandomString never returned.
Nonces == 0 .. MaxBuilds

\* Authorization codes the identity provider hands to the callback.
Codes == { "code_a" }

\* Scopes the resource server grants.
Scopes == { "scope_a" }

\* Tokens the token endpoint issues.
AccessTokens == { "at_1" }

RefreshTokens == { "rt_1" }

\* Bodies of non-success token responses.
ErrorTexts == { "invalid_grant" }

\* HTTP statuses of token responses: response.ok is status in 200..299.
OkStatuses == { "200" }

ErrorStatuses == { "400" }

\* TokenResponse as parsed by response.json(): access_token and refresh_token
\* may be missing.
TokenDatas ==
    [ access_token : { Null } \cup { Str(t) : t \in AccessTokens },
      refresh_token : { Null } \cup { Str(t) : t \in RefreshTokens } ]

----------------------------------------------------------------------------
\* Continuations and run reports.

\* A call suspended at an await.  op is the method, pc the awaited call; the other
\* fields are the arguments and locals of the call: code and state are the
\* arguments of exchangeCodeForTokens, n names the PKCE pair the call read
\* (exchangeCodeForTokens) or generated (buildAuthUrl).
Cont(op, pc, code, state, n, scope, token, status) ==
    [ op |-> op, pc |-> pc, code |-> code, state |-> state, n |-> n, scope |-> scope,
      token |-> token, status |-> status ]

\* What a run did.  kind is "pending" (the call suspended at an await),
\* "resolved" or "rejected"; msg is the Error message of a rejection, as the
\* sequence of the parts its template literal joins; arg is the state argument
\* of exchangeCodeForTokens; reqs is the number of token-endpoint requests the
\* call has issued; val is the value the run handed on, null unless the run is
\* made with Handing: the request a suspending run sent to the bridge, or the
\* value the promise resolved with.
Report(op, kind, msg, arg, reqs) ==
    [ op |-> op, kind |-> kind, msg |-> msg, arg |-> arg, reqs |-> reqs, val |-> << >> ]

\* The report r of a run that handed on the value v.
Handing(r, v) == [ r EXCEPT !.val = << v >> ]

Suspend(c) == pending (+) SetToBag({ c })

Resume(c) == pending (-) SetToBag({ c })

Suspended == BagToSet(pending)

----------------------------------------------------------------------------
\* Synchronous accessors.

getAccessToken(st) == st["bodhi_access_token"]

isAuthenticated(st) == Truthy(getAccessToken(st))


\* JSON.stringify of a UserInfo, as the sequence of the text's parts; JSON.parse
\* accepts exactly the texts of that shape.
JSONstringify(info) == << "{", info.email, info.role, info.tokenType, info.loggedIn, "}" >>

JSONwellFormed(text) == Len(text) = 6 /\ text[1] = "{" /\ text[6] = "}"

JSONparse(text) ==
    [ email |-> text[2], role |-> text[3], tokenType |-> text[4], loggedIn |-> text[5] ]

\* A faulty variant of getUserInfo: an entry that does not parse is handed on
\* as it is.
getUserInfo_rawText(st) ==
    LET userInfoStr == st["bodhi_user_info"]
    IN  IF ~Truthy(userInfoStr) THEN Null
        ELSE IF JSONwellFormed(userInfoStr[1]) THEN Str(JSONparse(userInfoStr[1]))
        ELSE userInfoStr

\* getUserInfo: null when the entry is missing or does not parse.
getUserInfo(st) ==
    LET userInfoStr == st["bodhi_user_info"]
    IN  IF ~Truthy(userInfoStr) THEN Null
        ELSE IF JSONwellFormed(userInfoStr[1]) THEN Str(JSONparse(userInfoStr[1]))
        ELSE Null

\* setUserInfo.
setUserInfo(st, info) ==
    [ st EXCEPT !["bodhi_user_info"] = Str(JSONstringify(info)) ]

\* A faulty variant of logoutStorage: the cached user info is not removed.
logoutStorage_keepsUserInfo(st) ==
    [ k \in DOMAIN st |-> IF k \in STORAGE_KEYS \ { "bodhi_user_info" } THEN Null ELSE st[k] ]

\* The storage logout leaves: every key of STORAGE_KEYS removed.
logoutStorage(st) == [ k \in DOMAIN st |-> IF k \in STORAGE_KEYS THEN Null ELSE st[k] ]

----------------------------------------------------------------------------
\* exchangeCodeForTokens, from the call to the await of fetch (lines 90-126).
\* The result names how the run ends, the flag it leaves and the storage it read.

\* A faulty variant of finallyFlag: the flag is cleared on the success path only.
finallyFlag_successOnly(kind) == kind # "resolved"

\* The `finally` block of exchangeCodeForTokens: the flag a run leaves when the
\* call settles inside the try block with the given kind.
finallyFlag(kind) == FALSE

\* A faulty variant of exchangeSync: the supplied state is not compared with the
\* persisted one.
exchangeSync_noStateCheck(st, flag, code, state) ==
    IF isAuthenticated(st) \/ flag
    THEN [ kind |-> "resolved", msg |-> << >>, flag |-> flag, n |-> 0 ]
    ELSE IF ~Truthy(st["bodhi_code_verifier"])
    THEN [ kind |-> "rejected", msg |-> << "Code verifier not found" >>,
           flag |-> finallyFlag("rejected"), n |-> 0 ]
    ELSE [ kind |-> "pending", msg |-> << >>, flag |-> TRUE,
           n |-> st["bodhi_code_verifier"][1] ]

\* A faulty variant of exchangeSync: the verifier is checked before the state.
exchangeSync_verifierFirst(st, flag, code, state) ==
    IF isAuthenticated(st) \/ flag
    THEN [ kind |-> "resolved", msg |-> << >>, flag |-> flag, n |-> 0 ]
    ELSE IF ~Truthy(st["bodhi_code_verifier"])
    THEN [ kind |-> "rejected", msg |-> << "Code verifier not found" >>,
           flag |-> finallyFlag("rejected"), n |-> 0 ]
    ELSE IF ~Truthy(st["bodhi_state"]) \/ st["bodhi_state"] # Str(state)
    THEN [ kind |-> "rejected", msg |-> << "Invalid state parameter" >>,
           flag |-> finallyFlag("rejected"), n |-> 0 ]
    ELSE [ kind |-> "pending", msg |-> << >>, flag |-> TRUE,
           n |-> st["bodhi_code_verifier"][1] ]

\* A faulty variant of exchangeSync: the already-authenticated guard is missing.
exchangeSync_noAuthGuard(st, flag, code, state) ==
    IF flag
    THEN [ kind |-> "resolved", msg |-> << >>, flag |-> flag, n |-> 0 ]
    ELSE IF ~Truthy(st["bodhi_state"]) \/ st["bodhi_state"] # Str(state)
    THEN [ kind |-> "rejected", msg |-> << "Invalid state parameter" >>,
           flag |-> finallyFlag("rejected"), n |-> 0 ]
    ELSE IF ~Truthy(st["bodhi_code_verifier"])
    THEN [ kind |-> "rejected", msg |-> << "Code verifier not found" >>,
           flag |-> finallyFlag("rejected"), n |-> 0 ]
    ELSE [ kind |-> "pending", msg |-> << >>, flag |-> TRUE,
           n |-> st["bodhi_code_verifier"][1] ]

exchangeSync(st, flag, code, state) ==
    IF isAuthenticated(st)
    THEN [ kind |-> "resolved", msg |-> << >>, flag |-> flag, n |-> 0 ]
    ELSE IF flag
    THEN [ kind |-> "resolved", msg |-> << >>, flag |-> flag, n |-> 0 ]
    ELSE LET storedState  == st["bodhi_state"]
             codeVerifier == st["bodhi_code_verifier"]
         IN  IF ~Truthy(storedState) \/ storedState # Str(state)
             THEN [ kind |-> "rejected", msg |-> << "Invalid state parameter" >>,
                    flag |-> finallyFlag("rejected"), n |-> 0 ]
             ELSE IF ~Truthy(codeVerifier)
             THEN [ kind |-> "rejected", msg |-> << "Code verifier not found" >>,
                    flag |-> finallyFlag("rejected"), n |-> 0 ]
             ELSE [ kind |-> "pending", msg |-> << >>, flag |-> TRUE,
                    n |-> codeVerifier[1] ]

\* A faulty variant of exchangeStore: the resource scope is deleted as well.
exchangeStore_dropsScope(st, tokenData) ==
    [ st EXCEPT !["bodhi_access_token"] = tokenData.access_token,
                !["bodhi_refresh_token"] =
                    IF Truthy(tokenData.refresh_token) THEN tokenData.refresh_token ELSE @,
                !["bodhi_state"] = Null, !["bodhi_code_verifier"] = Null,
                !["bodhi_resource_scope"] = Null ]

\* A faulty variant of exchangeStore: the refresh token is never persisted.
exchangeStore_noRefresh(st, tokenData) ==
    [ st EXCEPT !["bodhi_access_token"] = tokenData.access_token,
                !["bodhi_state"] = Null, !["bodhi_code_verifier"] = Null ]

\* A faulty variant of exchangeStore: the code verifier is not deleted.
exchangeStore_keepsVerifier(st, tokenData) ==
    [ st EXCEPT !["bodhi_access_token"] = tokenData.access_token,
                !["bodhi_refresh_token"] =
                    IF Truthy(tokenData.refresh_token) THEN tokenData.refresh_token ELSE @,
                !["bodhi_state"] = Null ]

\* The storage a successful exchange leaves (lines 139-145).
exchangeStore(st, tokenData) ==
    LET withAccess  == [ st EXCEPT !["bodhi_access_token"] = tokenData.access_token ]
        withRefresh == IF Truthy(tokenData.refresh_token)
                       THEN [ withAccess EXCEPT !["bodhi_refresh_token"] = tokenData.refresh_token ]
                       ELSE withAccess
    IN  [ withRefresh EXCEPT !["bodhi_state"] = Null, !["bodhi_code_verifier"] = Null ]

\* A faulty variant of exchangeFailedMessage: the status is left out of the message.
exchangeFailedMessage_noStatus(status, errorText) == << "Token exchange failed:", errorText >>

\* The message of the Error thrown for a non-success status (line 130).
exchangeFailedMessage(status, errorText) == << "Token exchange failed:", status, errorText >>

----------------------------------------------------------------------------
\* What the environment answers.

\* Messages of the errors the platform raises: fetch rejecting, a body that
\* cannot be read or parsed, the bridge call rejecting.
NetworkErrors == { "Failed to fetch" }

BodyErrors == { "Unexpected end of JSON input" }

BridgeErrors == { "Extension not available" }

\* response.body of POST /bodhi/v1/auth/request-access: scope may be missing.
AccessBodies == [ scope : { Null } \cup { Str(s) : s \in Scopes } ]

\* response.body of GET /bodhi/v1/user: email and role may be missing.
UserBodies == [ email : { Null, Str("user@example.com") }, role : { Null, Str("admin") } ]

----------------------------------------------------------------------------
\* Initial state: a page load with empty storage.

\* The settlement of loadExtensionClient: nothing yet, a handle
\* (ExtensionClientImpl) or an error.
Unsettled == [ kind |-> "none", name |-> "", timeout |-> 0, extensionId |-> "" ]

\* loadExtensionClient has not been called.
loaderIdle ==
    [ pc |-> "idle", timeout |-> 0, startTime |-> 0, due |-> 0, polls |-> 0, lastPoll |-> 0,
      detected |-> FALSE, result |-> Unsettled, settledAt |-> 0 ]

\* What a run of a handle method did: fn is the method, kind is "none",
\* "pending", "resolved" or "rejected", val the value or the Error message.
HandleReport(fn, kind, val) == [ fn |-> fn, kind |-> kind, val |-> val ]

\* The hooks as they are mounted: useState's initial values
\* (usePlatformDetection.ts lines 15-20, useAuthentication.ts lines 7-9).
hooksMounted ==
    /\ platformState = [ status |-> "detecting", client |-> << >>, extensionId |-> << >>,
                         error |-> << >> ]
    /\ authStatus = "unauthenticated"
    /\ userInfo = << >>
    /\ authError = << >>
    /\ tasks = EmptyBag
    /\ href = << >>

\* No page is mounted yet: the initial state of CallbackPage (CallbackPage.tsx
\* line 15) and the effects not yet run; nothing has been encoded.
pagesIdle ==
    /\ detection = [ mounted |-> FALSE, pc |-> "idle" ]
    /\ callbackPage = [ mounted |-> FALSE, pc |-> "idle",
                        state |-> [ status |-> "loading", message |-> "" ],
                        navigated |-> FALSE, run |-> 0 ]
    /\ pkce = [ digest |-> << >>, challenge |-> << >> ]
    /\ random = [ array |-> << >>, text |-> << >> ]

Init ==
    /\ localStorage = [ k \in STORAGE_KEYS |-> Null ]
    /\ isExchangingTokens = FALSE
    /\ pending = EmptyBag
    /\ generated = 0
    /\ requested = {}
    /\ last = Report("load", "resolved", << >>, 0, 0)
    /\ now = 0
    /\ bodhiext = FALSE
    /\ loader = loaderIdle
    /\ forwarded = << >>
    /\ calls = EmptyBag
    /\ reply = HandleReport("", "none", "")
    /\ hooksMounted
    /\ pagesIdle

\* A call may suspend only while fewer than MaxPending calls are suspended.
CanSuspend == BagCardinality(pending) < MaxPending

----------------------------------------------------------------------------
\* The OAuth configuration constants (lines 5-8).
APP_CLIENT_ID == "app-a05c53c5-3fc4-409d-833d-f4acc90e1611"

BODHI_AUTH_URL == "https://main-id.getbodhi.app"

AUTH_REALM == "bodhi"

REDIRECT_URI == "origin/callback"

----------------------------------------------------------------------------
\* requestResourceAccess (lines 42-61).

\* A faulty variant of requestAccessRequest: the body names no client.
requestAccessRequest_noClientId ==
    [ method |-> "POST", endpoint |-> "/bodhi/v1/auth/request-access", body |-> << >> ]

\* The request handed to extensionClient.sendApiRequest (lines 44-48).
requestAccessRequest ==
    [ method |-> "POST", endpoint |-> "/bodhi/v1/auth/request-access",
      body |-> [ app_client_id |-> APP_CLIENT_ID ] ]

requestResourceAccess_call ==
    /\ CanSuspend
    /\ pending' = Suspend(Cont("requestResourceAccess", "sendApiRequest", "", 0, 0, Null, Null, ""))
    /\ last' = Handing(Report("requestResourceAccess", "pending", << >>, 0, 0),
                       requestAccessRequest)
    /\ UNCHANGED <<localStorage, isExchangingTokens, generated, requested>>

\* The bridge call rejects with error e: the catch block wraps the error.
requestResourceAccess_bridgeRejects(c, e) ==
    /\ c.op = "requestResourceAccess"
    /\ pending' = Resume(c)
    /\ last' = Report("requestResourceAccess", "rejected",
                      << "Failed to request resource access:", e >>, 0, 0)
    /\ UNCHANGED <<localStorage, isExchangingTokens, generated, requested>>

\* The bridge call resolves with a response whose body is `body`.
requestResourceAccess_bridgeResolves(c, body) ==
    /\ c.op = "requestResourceAccess"
    /\ pending' = Resume(c)
    /\ IF ~Truthy(body.scope)
       THEN /\ last' = Report("requestResourceAccess", "rejected",
                              << "Failed to request resource access:",
                                 "No scope returned from request-access" >>, 0, 0)
            /\ UNCHANGED localStorage
       ELSE /\ localStorage' = [ localStorage EXCEPT !["bodhi_resource_scope"] = body.scope ]
            /\ last' = Handing(Report("requestResourceAccess", "resolved", << >>, 0, 0),
                               body.scope[1])
    /\ UNCHANGED <<isExchangingTokens, generated, requested>>

----------------------------------------------------------------------------
\* buildAuthUrl (lines 63-88).

\* PKCEUtils.generatePKCEChallenge: the base64url text of the SHA-256 digest of
\* the verifier.  The digest is a collision-free function of the verifier.
generatePKCEChallenge(verifier) == << "base64url", "SHA-256", verifier >>

\* A faulty variant of authUrl: the resource scope is left out of the scope list.
authUrl_fixedScopesOnly(resourceScope, state, codeChallenge) ==
    [ base |-> << BODHI_AUTH_URL, "/realms/", AUTH_REALM, "/protocol/openid-connect/auth" >>,
      params |-> [ response_type |-> "code",
                   client_id |-> APP_CLIENT_ID,
                   redirect_uri |-> REDIRECT_URI,
                   scope |-> << "openid", "email", "profile", "roles", "scope_user_user" >>,
                   state |-> state,
                   code_challenge |-> codeChallenge,
                   code_challenge_method |-> "S256" ] ]

\* The URL buildAuthUrl returns (lines 76-87): the authorization endpoint and
\* the query parameters.  The scope parameter is the list that join(' ') joins.
authUrl(resourceScope, state, codeChallenge) ==
    [ base |-> << BODHI_AUTH_URL, "/realms/", AUTH_REALM, "/protocol/openid-connect/auth" >>,
      params |-> [ response_type |-> "code",
                   client_id |-> APP_CLIENT_ID,
                   redirect_uri |-> REDIRECT_URI,
                   scope |-> << "openid", "email", "profile", "roles", "scope_user_user",
                                resourceScope[1] >>,
                   state |-> state,
                   code_challenge |-> codeChallenge,
                   code_challenge_method |-> "S256" ] ]

\* A faulty variant of buildAuthUrlSync: the scope check is missing.
buildAuthUrlSync_noScopeCheck(st) ==
    [ kind |-> "pending", msg |-> << >>, scope |-> st["bodhi_resource_scope"] ]

\* From the call to the await of generatePKCEChallenge (lines 64-71).
buildAuthUrlSync(st) ==
    LET resourceScope == st["bodhi_resource_scope"]
    IN  IF ~Truthy(resourceScope)
        THEN [ kind |-> "rejected",
               msg |-> << "Resource scope not found. Call requestResourceAccess first." >>,
               scope |-> Null ]
        ELSE [ kind |-> "pending", msg |-> << >>, scope |-> resourceScope ]

buildAuthUrl_call ==
    LET r == buildAuthUrlSync(localStorage)
    IN  /\ last' = Report("buildAuthUrl", r.kind, r.msg, 0, 0)
        /\ IF r.kind = "pending"
           THEN /\ CanSuspend
                /\ generated < MaxBuilds
                /\ generated' = generated + 1
                /\ pending' = Suspend(Cont("buildAuthUrl", "digest", "", 0, generated + 1,
                                           r.scope, Null, ""))
           ELSE UNCHANGED <<pending, generated, requested>>
        /\ UNCHANGED <<localStorage, isExchangingTokens, requested>>

\* A faulty variant of buildAuthUrlStore: only the state is persisted.
buildAuthUrlStore_stateOnly(st, n) == [ st EXCEPT !["bodhi_state"] = Str(n) ]

\* A faulty variant of buildAuthUrlStore: a pair already persisted is kept.
buildAuthUrlStore_keepsFirst(st, n) ==
    IF Truthy(st["bodhi_state"])
    THEN st
    ELSE [ st EXCEPT !["bodhi_state"] = Str(n), !["bodhi_code_verifier"] = Str(n) ]

\* The storage buildAuthUrl leaves once the challenge is computed (lines 73-74).
buildAuthUrlStore(st, n) ==
    [ st EXCEPT !["bodhi_state"] = Str(n), !["bodhi_code_verifier"] = Str(n) ]

\* generatePKCEChallenge resolves: the pair is persisted and the URL returned.
buildAuthUrl_digestResolves(c) ==
    /\ c.op = "buildAuthUrl"
    /\ pending' = Resume(c)
    /\ localStorage' = buildAuthUrlStore(localStorage, c.n)
    /\ last' = Handing(Report("buildAuthUrl", "resolved", << >>, c.n, 0),
                       authUrl(c.scope, c.n, generatePKCEChallenge(c.n)))
    /\ UNCHANGED <<isExchangingTokens, generated, requested>>

----------------------------------------------------------------------------
\* exchangeCodeForTokens (lines 90-149).

\* The call, up to the await of fetch: a no-op return, a rejection thrown inside
\* the try block (the finally block runs in the same run), or the token request
\* sent.
exchangeCodeForTokens(code, state) ==
    LET r == exchangeSync(localStorage, isExchangingTokens, code, state)
    IN  /\ isExchangingTokens' = r.flag
        /\ IF r.kind = "pending"
           THEN /\ CanSuspend
                /\ pending' = Suspend(Cont("exchangeCodeForTokens", "fetch", code, state, r.n,
                                           Null, Null, ""))
                /\ last' = Report("exchangeCodeForTokens", "pending", << >>, state, 1)
                /\ requested' = requested \cup { r.n }
           ELSE /\ UNCHANGED <<pending, requested>>
                /\ last' = Report("exchangeCodeForTokens", r.kind, r.msg, state, 0)
        /\ UNCHANGED <<localStorage, generated>>

\* fetch rejects with error e (no response): the finally block runs.
exchangeCodeForTokens_fetchRejects(c, e) ==
    /\ c.op = "exchangeCodeForTokens" /\ c.pc = "fetch"
    /\ pending' = Resume(c)
    /\ isExchangingTokens' = finallyFlag("rejected")
    /\ last' = Report("exchangeCodeForTokens", "rejected", << e >>, c.state, 1)
    /\ UNCHANGED <<localStorage, generated, requested>>

\* fetch resolves with a response: the call awaits response.text() when the
\* status is not a success, response.json() otherwise.
exchangeCodeForTokens_fetchResolves(c, status) ==
    /\ c.op = "exchangeCodeForTokens" /\ c.pc = "fetch"
    /\ pending' = Resume(c) (+)
                  SetToBag({ [ c EXCEPT !.pc = IF status \in OkStatuses THEN "json" ELSE "text",
                                        !.status = status ] })
    /\ last' = Report("exchangeCodeForTokens", "pending", << >>, c.state, 1)
    /\ UNCHANGED <<localStorage, isExchangingTokens, generated, requested>>

\* A faulty variant of exchangeCodeForTokens_textResolves: the PKCE pair is
\* deleted when the exchange fails.
exchangeCodeForTokens_textResolves_dropsPair(c, errorText) ==
    /\ c.op = "exchangeCodeForTokens" /\ c.pc = "text"
    /\ pending' = Resume(c)
    /\ isExchangingTokens' = finallyFlag("rejected")
    /\ last' = Report("exchangeCodeForTokens", "rejected",
                      exchangeFailedMessage(c.status, errorText), c.state, 1)
    /\ localStorage' = [ localStorage EXCEPT !["bodhi_state"] = Null,
                                             !["bodhi_code_verifier"] = Null ]
    /\ UNCHANGED <<generated, requested>>

\* response.text() resolves: the call throws with the status and the text.
exchangeCodeForTokens_textResolves(c, errorText) ==
    /\ c.op = "exchangeCodeForTokens" /\ c.pc = "text"
    /\ pending' = Resume(c)
    /\ isExchangingTokens' = finallyFlag("rejected")
    /\ last' = Report("exchangeCodeForTokens", "rejected",
                      exchangeFailedMessage(c.status, errorText), c.state, 1)
    /\ UNCHANGED <<localStorage, generated, requested>>

\* response.text() or response.json() rejects with error e (the body cannot be
\* read, or is not JSON).
exchangeCodeForTokens_bodyRejects(c, e) ==
    /\ c.op = "exchangeCodeForTokens" /\ c.pc \in { "text", "json" }
    /\ pending' = Resume(c)
    /\ isExchangingTokens' = finallyFlag("rejected")
    /\ last' = Report("exchangeCodeForTokens", "rejected", << e >>, c.state, 1)
    /\ UNCHANGED <<localStorage, generated, requested>>

\* response.json() resolves with the token data.
exchangeCodeForTokens_jsonResolves(c, tokenData) ==
    /\ c.op = "exchangeCodeForTokens" /\ c.pc = "json"
    /\ pending' = Resume(c)
    /\ IF ~Truthy(tokenData.access_token)
       THEN /\ isExchangingTokens' = finallyFlag("rejected")
            /\ last' = Report("exchangeCodeForTokens", "rejected",
                              << "No access token received" >>, c.state, 1)
            /\ UNCHANGED localStorage
       ELSE /\ localStorage' = exchangeStore(localStorage, tokenData)
            /\ isExchangingTokens' = finallyFlag("resolved")
            /\ last' = Report("exchangeCodeForTokens", "resolved", << >>, c.state, 1)
    /\ UNCHANGED <<generated, requested>>

----------------------------------------------------------------------------
\* fetchUserInfo (lines 178-206).

\* The request fetchUserInfo sends through the bridge (lines 185-190).
userInfoRequest(accessToken) ==
    [ method |-> "GET", endpoint |-> "/bodhi/v1/user",
      headers |-> [ Authorization |-> << "Bearer", accessToken[1] >> ] ]

fetchUserInfo_call ==
    LET accessToken == getAccessToken(localStorage)
    IN  /\ IF ~Truthy(accessToken)
           THEN /\ last' = Report("fetchUserInfo", "rejected",
                                  << "No access token available" >>, 0, 0)
                /\ UNCHANGED pending
           ELSE /\ CanSuspend
                /\ pending' = Suspend(Cont("fetchUserInfo", "sendApiRequest", "", 0, 0, Null,
                                           accessToken, ""))
                /\ last' = Handing(Report("fetchUserInfo", "pending", << >>, 0, 0),
                                   userInfoRequest(accessToken))
        /\ UNCHANGED <<localStorage, isExchangingTokens, generated, requested>>

fetchUserInfo_bridgeRejects(c, e) ==
    /\ c.op = "fetchUserInfo"
    /\ pending' = Resume(c)
    /\ last' = Report("fetchUserInfo", "rejected", << "Failed to fetch user info:", e >>, 0, 0)
    /\ UNCHANGED <<localStorage, isExchangingTokens, generated, requested>>

\* A faulty variant of userInfoOf: a missing field is left empty.
userInfoOf_noDefaults(body) ==
    [ email     |-> IF Truthy(body.email) THEN body.email[1] ELSE "",
      role      |-> IF Truthy(body.role) THEN body.role[1] ELSE "",
      tokenType |-> "Bearer",
      loggedIn  |-> "true" ]

\* The UserInfo built from the response body (lines 192-197).
userInfoOf(body) ==
    [ email     |-> IF Truthy(body.email) THEN body.email[1] ELSE "Unknown",
      role      |-> IF Truthy(body.role) THEN body.role[1] ELSE "user",
      tokenType |-> "Bearer",
      loggedIn  |-> "true" ]

fetchUserInfo_bridgeResolves(c, body) ==
    /\ c.op = "fetchUserInfo"
    /\ pending' = Resume(c)
    /\ localStorage' = setUserInfo(localStorage, userInfoOf(body))
    /\ last' = Handing(Report("fetchUserInfo", "resolved", << >>, 0, 0), userInfoOf(body))
    /\ UNCHANGED <<isExchangingTokens, generated, requested>>

----------------------------------------------------------------------------
\* logout (lines 173-176).

logout ==
    /\ localStorage' = logoutStorage(localStorage)
    /\ isExchangingTokens' = FALSE
    /\ last' = Report("logout", "resolved", << >>, 0, 0)
    /\ UNCHANGED <<pending, generated, requested>>

\* A page load (the navigation back from the identity provider, or the callback
\* page's Retry button, window.location.reload()): the module is evaluated
\* again, so a new OAuthManager is constructed (isExchangingTokens = false), the
\* calls of the unloaded page are gone, and localStorage is kept.
pageLoad ==
    /\ isExchangingTokens' = FALSE
    /\ pending' = EmptyBag
    /\ last' = Report("load", "resolved", << >>, 0, 0)
    /\ UNCHANGED <<localStorage, generated, requested>>

----------------------------------------------------------------------------
\* The callers' arguments of exchangeCodeForTokens are any code and, as state,
\* any string generated so far or a string that was never generated.  The
\* environment resumes any suspended call with any answer.
Next ==
    \/ requestResourceAccess_call
          /\ UNCHANGED <<extensionVars, coordinatorVars, pageVars, pkceVars>>
    \/ \E c \in Suspended, e \in BridgeErrors : requestResourceAccess_bridgeRejects(c, e)
          /\ UNCHANGED <<extensionVars, coordinatorVars, pageVars, pkceVars>>
    \/ \E c \in Suspended, body \in AccessBodies : requestResourceAccess_bridgeResolves(c, body)
          /\ UNCHANGED <<extensionVars, coordinatorVars, pageVars, pkceVars>>
    \/ buildAuthUrl_call
          /\ UNCHANGED <<extensionVars, coordinatorVars, pageVars, pkceVars>>
    \/ \E c \in Suspended : buildAuthUrl_digestResolves(c)
          /\ UNCHANGED <<extensionVars, coordinatorVars, pageVars, pkceVars>>
    \/ \E code \in Codes, state \in 0 .. generated : exchangeCodeForTokens(code, state)
          /\ UNCHANGED <<extensionVars, coordinatorVars, pageVars, pkceVars>>
    \/ \E c \in Suspended, e \in NetworkErrors : exchangeCodeForTokens_fetchRejects(c, e)
          /\ UNCHANGED <<extensionVars, coordinatorVars, pageVars, pkceVars>>
    \/ \E c \in Suspended, status \in OkStatuses \cup ErrorStatuses :
          exchangeCodeForTokens_fetchResolves(c, status)
          /\ UNCHANGED <<extensionVars, coordinatorVars, pageVars, pkceVars>>
    \/ \E c \in Suspended, errorText \in ErrorTexts : exchangeCodeForTokens_textResolves(c, errorText)
          /\ UNCHANGED <<extensionVars, coordinatorVars, pageVars, pkceVars>>
    \/ \E c \in Suspended, e \in BodyErrors : exchangeCodeForTokens_bodyRejects(c, e)
          /\ UNCHANGED <<extensionVars, coordinatorVars, pageVars, pkceVars>>
    \/ \E c \in Suspended, tokenData \in TokenDatas : exchangeCodeForTokens_jsonResolves(c, tokenData)
          /\ UNCHANGED <<extensionVars, coordinatorVars, pageVars, pkceVars>>
    \/ fetchUserInfo_call
          /\ UNCHANGED <<extensionVars, coordinatorVars, pageVars, pkceVars>>
    \/ \E c \in Suspended, e \in BridgeErrors : fetchUserInfo_bridgeRejects(c, e)
          /\ UNCHANGED <<extensionVars, coordinatorVars, pageVars, pkceVars>>
    \/ \E c \in Suspended, body \in UserBodies : fetchUserInfo_bridgeResolves(c, body)
          /\ UNCHANGED <<extensionVars, coordinatorVars, pageVars, pkceVars>>
    \/ logout
          /\ UNCHANGED <<extensionVars, coordinatorVars, pageVars, pkceVars>>
    \/ pageLoad
          /\ UNCHANGED <<extensionVars, coordinatorVars, pageVars, pkceVars>>

Spec == Init /\ [][Next]_vars

----------------------------------------------------------------------------
\* loadExtensionClient and ExtensionClientImpl
\* (src/src/components/platform/PlatformStatusSection.tsx, lines 100-193).
\*
\* Time is the value of Date.now().  The clock advances in ticks of half a poll
\* interval; a timer set with setTimeout(f, d) fires when the clock has reached
\* its due time, and the clock does not pass the due time of an armed timer by
\* more than MaxLate ticks.

\* The delay of the polling timer: setTimeout(checkExtension, 100).
PollInterval == 100

Tick == PollInterval \div 2

\* The timeouts loadExtensionClient is called with.
Timeouts == { k * Tick : k \in 1 .. MaxTimeoutTicks }

\* The identifiers window.bodhiext.getExtensionId() resolves with.
ExtensionIds == { "ext_a", "ext_b" }

\* The errors window.bodhiext.getExtensionId() rejects with or throws.
IdErrors == { "TypeError", "ExtensionTimeoutError" }

\* new ExtensionNotFoundError(timeout), src/src/types/extension.ts lines 43-48.
ExtensionNotFoundError(timeout) ==
    [ kind |-> "error", name |-> "ExtensionNotFoundError", timeout |-> timeout,
      extensionId |-> "" ]

\* new ExtensionTimeoutError(timeout), src/src/types/extension.ts lines 50-55.
ExtensionTimeoutError(timeout) ==
    [ kind |-> "error", name |-> "ExtensionTimeoutError", timeout |-> timeout,
      extensionId |-> "" ]

\* The message of an Error, word by word: the messages the two error classes
\* are constructed with (src/src/types/extension.ts lines 45 and 52).
messageOf(e) ==
    IF e.name = "ExtensionNotFoundError"
    THEN << "Bodhi", "extension", "not", "detected", "within", ToString(e.timeout) \o "ms" >>
    ELSE << "Timeout", "fetching", "extension", "ID", "within", ToString(e.timeout) \o "ms" >>

\* new ExtensionClientImpl(extensionId).
ExtensionClientImpl(extensionId) ==
    [ kind |-> "handle", name |-> "ExtensionClientImpl", timeout |-> 0,
      extensionId |-> extensionId ]

\* A faulty variant of timedOut: the poll gives up at once.
timedOut_atOnce(time, startTime, timeout) == TRUE

\* The timeout test of checkExtension (line 163).
timedOut(time, startTime, timeout) == time - startTime >= timeout

\* A faulty variant of raceError: the error is thrown on as it is.
raceError_rethrown(name, timeout) ==
    [ kind |-> "error", name |-> name, timeout |-> timeout, extensionId |-> "" ]

\* The catch block of the identifier fetch (lines 187-192): an error named
\* `name` is thrown on if it is an ExtensionTimeoutError and replaced by a new
\* ExtensionTimeoutError otherwise.
raceError(name, timeout) ==
    IF name = "ExtensionTimeoutError"
    THEN [ kind |-> "error", name |-> name, timeout |-> timeout, extensionId |-> "" ]
    ELSE ExtensionTimeoutError(timeout)

\* The loader settles with result r.
settle(l, r) ==
    [ l EXCEPT !.pc = IF r.kind = "handle" THEN "resolved" ELSE "rejected",
               !.result = r, !.settledAt = now ]

\* One run of checkExtension (lines 157-169) by loader l at the current time.
\* When the object is present the promise resolves true and the call goes on to
\* the identifier fetch (lines 179-184): getExtensionId() is called, and either
\* throws idThrows (a name of IdErrors) or returns a promise (idThrows = ""),
\* which is raced against a timer of `timeout`.
checkExtension(l, idThrows) ==
    LET polled == [ l EXCEPT !.polls = l.polls + 1, !.lastPoll = now ]
    IN  IF bodhiext
        THEN IF idThrows # ""
             THEN settle([ polled EXCEPT !.detected = TRUE ], raceError(idThrows, l.timeout))
             ELSE [ polled EXCEPT !.pc = "race", !.detected = TRUE, !.due = now + l.timeout ]
        ELSE IF timedOut(now, l.startTime, l.timeout)
             THEN settle(polled, ExtensionNotFoundError(l.timeout))
             ELSE [ polled EXCEPT !.pc = "polling", !.due = now + PollInterval ]

\* loadExtensionClient({ timeout }) is called: the first poll runs in the call.
loadExtensionClient(timeout, idThrows) ==
    /\ loader.pc = "idle"
    /\ loader' = checkExtension([ loader EXCEPT !.timeout = timeout, !.startTime = now ],
                                idThrows)
    /\ UNCHANGED <<now, bodhiext, forwarded, calls, reply>>

\* The polling timer fires.
checkExtension_timer(idThrows) ==
    /\ loader.pc = "polling"
    /\ now >= loader.due
    /\ loader' = checkExtension(loader, idThrows)
    /\ UNCHANGED <<now, bodhiext, forwarded, calls, reply>>

\* getExtensionId() resolves with extensionId before the timer fires.
getExtensionId_resolves(extensionId) ==
    /\ loader.pc = "race"
    /\ loader' = settle(loader, ExtensionClientImpl(extensionId))
    /\ UNCHANGED <<now, bodhiext, forwarded, calls, reply>>

\* getExtensionId() rejects with an error named `name` before the timer fires.
getExtensionId_rejects(name) ==
    /\ loader.pc = "race"
    /\ loader' = settle(loader, raceError(name, loader.timeout))
    /\ UNCHANGED <<now, bodhiext, forwarded, calls, reply>>

\* A faulty variant of race_timer: the timer's rejection is not part of the
\* race, so its firing changes nothing.
race_timer_ignored ==
    /\ loader.pc = "race"
    /\ now >= loader.due
    /\ UNCHANGED <<loader, now, bodhiext, forwarded, calls, reply>>

\* The timer of the race fires first (line 182).
race_timer ==
    /\ loader.pc = "race"
    /\ now >= loader.due
    /\ loader' = settle(loader, raceError("ExtensionTimeoutError", loader.timeout))
    /\ UNCHANGED <<now, bodhiext, forwarded, calls, reply>>

\* The clock advances while a timer is armed.
tick ==
    /\ loader.pc \in { "polling", "race" }
    /\ now + Tick <= loader.due + MaxLate * Tick
    /\ now' = now + Tick
    /\ UNCHANGED <<bodhiext, loader, forwarded, calls, reply>>

\* The extension's content script defines window.bodhiext.
bodhiext_defined ==
    /\ ~bodhiext
    /\ bodhiext' = TRUE
    /\ UNCHANGED <<now, loader, forwarded, calls, reply>>

\* window.bodhiext is gone (the extension is disabled or removed).
bodhiext_removed ==
    /\ bodhiext
    /\ bodhiext' = FALSE
    /\ UNCHANGED <<now, loader, forwarded, calls, reply>>

\* The calls a page makes on a bridge handle: the method and its arguments.
HandleCalls ==
    { [ fn |-> "sendApiRequest", args |-> << "GET", "/bodhi/v1/user", "", "Bearer" >> ],
      [ fn |-> "sendStreamRequest", args |-> << "POST", "/v1/chat/completions", "{}", "" >> ],
      [ fn |-> "ping", args |-> << >> ],
      [ fn |-> "serverState", args |-> << >> ] }

\* What window.bodhiext answers a call with: a value, or an error.
BridgeAnswers == [ kind : { "resolved", "rejected" }, val : { "answer_a", "answer_b" } ]

\* A faulty variant of ensureExtensionAvailable: it never throws.
ensureExtensionAvailable_neverThrows(present) == TRUE

\* ensureExtensionAvailable (lines 141-145): TRUE when it returns, FALSE when it
\* throws.
ensureExtensionAvailable(present) == present

\* A method of the handle loadExtensionClient returned is called (lines
\* 111-139): it throws when the object is absent, and hands the call to
\* window.bodhiext otherwise.
handle_call(call) ==
    /\ loader.pc = "resolved"
    /\ IF ensureExtensionAvailable(bodhiext)
       THEN /\ Len(forwarded) < MaxForwarded
            /\ forwarded' = Append(forwarded, call)
            /\ calls' = calls (+) SetToBag({ call })
            /\ reply' = HandleReport(call.fn, "pending", "")
       ELSE /\ reply' = HandleReport(call.fn, "rejected", "Bodhi extension not available")
            /\ UNCHANGED <<forwarded, calls>>
    /\ UNCHANGED <<now, bodhiext, loader>>

\* window.bodhiext settles a forwarded call: the handle's promise settles the
\* same way.
handle_settles(call, answer) ==
    /\ call \in BagToSet(calls)
    /\ calls' = calls (-) SetToBag({ call })
    /\ reply' = HandleReport(call.fn, answer.kind, answer.val)
    /\ UNCHANGED <<now, bodhiext, loader, forwarded>>

NextExtension ==
    \/ \E timeout \in Timeouts, idThrows \in { "" } \cup IdErrors :
          loadExtensionClient(timeout, idThrows) /\ UNCHANGED <<vars, coordinatorVars, pageVars, pkceVars>>
    \/ \E idThrows \in { "" } \cup IdErrors : checkExtension_timer(idThrows) /\ UNCHANGED <<vars, coordinatorVars, pageVars, pkceVars>>
    \/ \E extensionId \in ExtensionIds : getExtensionId_resolves(extensionId) /\ UNCHANGED <<vars, coordinatorVars, pageVars, pkceVars>>
    \/ \E name \in IdErrors : getExtensionId_rejects(name) /\ UNCHANGED <<vars, coordinatorVars, pageVars, pkceVars>>
    \/ race_timer /\ UNCHANGED <<vars, coordinatorVars, pageVars, pkceVars>>
    \/ tick /\ UNCHANGED <<vars, coordinatorVars, pageVars, pkceVars>>
    \/ bodhiext_defined /\ UNCHANGED <<vars, coordinatorVars, pageVars, pkceVars>>
    \/ bodhiext_removed /\ UNCHANGED <<vars, coordinatorVars, pageVars, pkceVars>>

SpecExtension == Init /\ [][NextExtension]_extensionVars

\* The event loop at work: the clock advances and a timer that is due fires.
\* Nothing makes getExtensionId() settle or the capability object appear.
SpecExtensionFair ==
    /\ SpecExtension
    /\ WF_extensionVars(tick)
    /\ WF_extensionVars(\E idThrows \in { "" } \cup IdErrors : checkExtension_timer(idThrows))
    /\ WF_extensionVars(race_timer)

\* The bridge handle in use.  The page starts in a state loadExtensionClient
\* leaves: the object was present at the first poll and getExtensionId()
\* resolved at once.
InitHandle ==
    /\ localStorage = [ k \in STORAGE_KEYS |-> Null ]
    /\ isExchangingTokens = FALSE
    /\ pending = EmptyBag
    /\ generated = 0
    /\ requested = {}
    /\ last = Report("load", "resolved", << >>, 0, 0)
    /\ now = 0
    /\ bodhiext = TRUE
    /\ \E timeout \in Timeouts, extensionId \in ExtensionIds :
          loader = [ loaderIdle EXCEPT !.pc = "resolved", !.timeout = timeout, !.polls = 1,
                                       !.detected = TRUE, !.due = timeout,
                                       !.result = ExtensionClientImpl(extensionId) ]
    /\ forwarded = << >>
    /\ calls = EmptyBag
    /\ reply = HandleReport("", "none", "")
    /\ hooksMounted
    /\ pagesIdle

NextHandle ==
    \/ \E call \in HandleCalls : handle_call(call) /\ UNCHANGED <<vars, coordinatorVars, pageVars, pkceVars>>
    \/ \E call \in HandleCalls, answer \in BridgeAnswers :
          handle_settles(call, answer) /\ UNCHANGED <<vars, coordinatorVars, pageVars, pkceVars>>
    \/ bodhiext_defined /\ UNCHANGED <<vars, coordinatorVars, pageVars, pkceVars>>
    \/ bodhiext_removed /\ UNCHANGED <<vars, coordinatorVars, pageVars, pkceVars>>

SpecHandle == InitHandle /\ [][NextHandle]_extensionVars

----------------------------------------------------------------------------
\* The auth coordinator, useAuthentication (src/src/hooks/useAuthentication.ts),
\* with the platformState that usePlatformDetection
\* (src/src/hooks/usePlatformDetection.ts) gives it.
\*
\* The coordinator calls the methods of oauthManager, so a run of the
\* coordinator contains the run of the manager method it calls.  A coordinator
\* call suspended at `await oauthManager.m(...)` is a task; when the manager
\* call settles, the task takes the settlement, and it goes on in a run of its
\* own.

\* A task: op is the coordinator function, pc the manager method it awaits, n
\* the PKCE pair of an awaited buildAuthUrl; once the awaited call has settled,
\* kind, msg and val are its settlement.
Task(op, pc, n) ==
    [ op |-> op, pc |-> pc, n |-> n, settled |-> FALSE, kind |-> "", msg |-> << >>,
      val |-> << >> ]

\* Task t after the awaited call settled as report r says.
Settled(t, r) == [ t EXCEPT !.settled = TRUE, !.kind = r.kind, !.msg = r.msg, !.val = r.val ]

Awaiting(pc, n) == { t \in BagToSet(tasks) : t.pc = pc /\ t.n = n /\ ~t.settled }

\* The manager call pc (of pair n) settles in this step: a task awaiting it
\* takes the settlement.
deliver(pc, n) ==
    IF Awaiting(pc, n) = {}
    THEN UNCHANGED tasks
    ELSE \E t \in Awaiting(pc, n) :
            tasks' = ( tasks (-) SetToBag({ t }) ) (+) SetToBag({ Settled(t, last') })

\* The persisted sessions a page load may find: an access token or none, and
\* as cached user info nothing, the text setUserInfo wrote, or a text that
\* JSON.parse rejects.
StoredUserInfos ==
    { Null,
      Str(JSONstringify(userInfoOf([ email |-> Str("user@example.com"), role |-> Null ]))),
      Str(<< "{" >>) }

StoredSessions ==
    { [ k \in STORAGE_KEYS |->
          IF k = "bodhi_access_token" THEN token
          ELSE IF k = "bodhi_user_info" THEN info
          ELSE Null ] :
      token \in { Null } \cup { Str(t) : t \in AccessTokens }, info \in StoredUserInfos }

\* The message login sets when it has no client (line 48).
ExtensionNotAvailable ==
    << "Extension not available. Please ensure the Bodhi browser extension is installed." >>

\* The errors loadExtensionClient fails with, as usePlatformDetection sees them.
DetectionErrors == { "ExtensionNotFoundError", "ExtensionTimeoutError" }

\* A faulty variant of caught: the status is left as it is.
caught_keepsStatus(status, msg) == [ status |-> status, error |-> Str(msg) ]

\* The catch blocks of fetchUserInfo and login (lines 38-42 and 58-63): the
\* status and the error they set for an error with message msg.
caught(status, msg) == [ status |-> "error", error |-> Str(msg) ]

\* A faulty variant of cachedUserInfo: the cache is never used.
cachedUserInfo_ignored(st) == Null

\* The cached user info checkExistingAuth reads (line 19).
cachedUserInfo(st) == getUserInfo(st)

\* A coordinator call may suspend only while fewer than MaxPending tasks exist.
CanAwait == BagCardinality(tasks) < MaxPending

\* fetchUserInfo of the coordinator, up to its await (lines 29-34).
useAuthentication_fetchUserInfo ==
    /\ CanAwait
    /\ authStatus' = "authenticating"
    /\ fetchUserInfo_call
    /\ tasks' = tasks (+) SetToBag({ IF last'.kind = "pending"
                                     THEN Task("fetchUserInfo", "fetchUserInfo", 0)
                                     ELSE Settled(Task("fetchUserInfo", "fetchUserInfo", 0),
                                                  last') })
    /\ UNCHANGED <<userInfo, authError>>

\* checkExistingAuth (lines 17-27), run by the effect of lines 11-15.
checkExistingAuth ==
    IF isAuthenticated(localStorage)
    THEN LET storedUserInfo == cachedUserInfo(localStorage)
         IN  IF Truthy(storedUserInfo)
             THEN /\ userInfo' = storedUserInfo
                  /\ authStatus' = "authenticated"
                  /\ UNCHANGED <<authError, tasks, vars>>
             ELSE useAuthentication_fetchUserInfo
    ELSE UNCHANGED <<authStatus, userInfo, authError, tasks, vars>>

\* The timeout usePlatformDetection calls loadExtensionClient with (line 29).
DetectionTimeout == 5000

\* ExtensionClientImpl.getExtensionId() of the handle.
getExtensionId(client) == client.extensionId

\* A faulty variant of detectedState: the identifier is not set.
detectedState_noExtensionId(client) ==
    [ status |-> "detected", client |-> Str(client), extensionId |-> Null, error |-> Null ]

\* The state usePlatformDetection sets when loadExtensionClient resolved with
\* client (lines 33-38).
detectedState(client) ==
    [ status |-> "detected", client |-> Str(client),
      extensionId |-> Str(getExtensionId(client)), error |-> Null ]

\* The state usePlatformDetection sets when loadExtensionClient rejected with
\* the error e (lines 42-48).
errorState(e) ==
    [ status |-> "error", client |-> Null, extensionId |-> Null, error |-> Str(messageOf(e)) ]

\* loadExtensionClient resolved with a handle: usePlatformDetection sets the
\* detected state (lines 33-38), and the effect of useAuthentication runs.
platformDetected(extensionId) ==
    /\ platformState.status = "detecting"
    /\ platformState' = detectedState(ExtensionClientImpl(extensionId))
    /\ checkExistingAuth
    /\ UNCHANGED href

\* loadExtensionClient rejected: usePlatformDetection sets the error state
\* (lines 39-49); the effect does nothing.
platformFailed(name) ==
    /\ platformState.status = "detecting"
    /\ platformState' = errorState(IF name = "ExtensionNotFoundError"
                                   THEN ExtensionNotFoundError(DetectionTimeout)
                                   ELSE ExtensionTimeoutError(DetectionTimeout))
    /\ UNCHANGED <<authStatus, userInfo, authError, tasks, href, vars>>

\* The task t of the coordinator's fetchUserInfo goes on after its await (lines
\* 34-42).
useAuthentication_fetchUserInfo_settled(t) ==
    /\ t \in BagToSet(tasks) /\ t.op = "fetchUserInfo" /\ t.settled
    /\ tasks' = tasks (-) SetToBag({ t })
    /\ IF t.kind = "resolved"
       THEN /\ userInfo' = t.val
            /\ authStatus' = "authenticated"
            /\ authError' = Null
            /\ UNCHANGED vars
       ELSE /\ authError' = caught(authStatus, t.msg).error
            /\ authStatus' = caught(authStatus, t.msg).status
            /\ logout
            /\ UNCHANGED userInfo
    /\ UNCHANGED <<platformState, href>>

\* login, up to its first await (lines 46-56).
useAuthentication_login ==
    /\ IF ~Truthy(platformState.client)
       THEN /\ authError' = Str(ExtensionNotAvailable)
            /\ UNCHANGED <<authStatus, tasks, vars>>
       ELSE /\ CanAwait
            /\ authStatus' = "authenticating"
            /\ authError' = Null
            /\ requestResourceAccess_call
            /\ tasks' = tasks (+) SetToBag({ Task("login", "requestResourceAccess", 0) })
    /\ UNCHANGED <<platformState, userInfo, href>>

\* The task t of login goes on after the await of requestResourceAccess: the
\* catch block (lines 58-63), or the call of buildAuthUrl (line 57).
useAuthentication_login_accessSettled(t) ==
    /\ t \in BagToSet(tasks) /\ t.op = "login" /\ t.pc = "requestResourceAccess" /\ t.settled
    /\ IF t.kind = "rejected"
       THEN /\ authError' = caught(authStatus, t.msg).error
            /\ authStatus' = caught(authStatus, t.msg).status
            /\ tasks' = tasks (-) SetToBag({ t })
            /\ UNCHANGED vars
       ELSE /\ buildAuthUrl_call
            /\ tasks' = ( tasks (-) SetToBag({ t }) ) (+)
                        SetToBag({ IF last'.kind = "pending"
                                   THEN Task("login", "buildAuthUrl", generated')
                                   ELSE Settled(Task("login", "buildAuthUrl", 0), last') })
            /\ UNCHANGED <<authStatus, authError>>
    /\ UNCHANGED <<platformState, userInfo, href>>

\* The task t of login goes on after the await of buildAuthUrl: the catch
\* block, or the navigation (line 58).
useAuthentication_login_buildSettled(t) ==
    /\ t \in BagToSet(tasks) /\ t.op = "login" /\ t.pc = "buildAuthUrl" /\ t.settled
    /\ tasks' = tasks (-) SetToBag({ t })
    /\ IF t.kind = "rejected"
       THEN /\ authError' = caught(authStatus, t.msg).error
            /\ authStatus' = caught(authStatus, t.msg).status
            /\ UNCHANGED href
       ELSE /\ href' = t.val
            /\ UNCHANGED <<authStatus, authError>>
    /\ UNCHANGED <<platformState, userInfo, vars>>

\* A faulty variant of useAuthentication_logout: the error is not cleared.
useAuthentication_logout_keepsError ==
    /\ logout
    /\ userInfo' = Null
    /\ authStatus' = "unauthenticated"
    /\ UNCHANGED <<platformState, authError, tasks, href>>

\* logout of the coordinator (lines 66-71).
useAuthentication_logout ==
    /\ logout
    /\ userInfo' = Null
    /\ authStatus' = "unauthenticated"
    /\ authError' = Null
    /\ UNCHANGED <<platformState, tasks, href>>

\* A manager call settles and the task awaiting it takes the settlement.
settles(pc, n) ==
    /\ deliver(pc, n)
    /\ UNCHANGED <<platformState, authStatus, userInfo, authError, href>>

\* A page load with a session persisted by earlier page loads.
InitCoordinator ==
    /\ localStorage \in StoredSessions
    /\ isExchangingTokens = FALSE
    /\ pending = EmptyBag
    /\ generated = 0
    /\ requested = {}
    /\ last = Report("load", "resolved", << >>, 0, 0)
    /\ now = 0
    /\ bodhiext = FALSE
    /\ loader = loaderIdle
    /\ forwarded = << >>
    /\ calls = EmptyBag
    /\ reply = HandleReport("", "none", "")
    /\ hooksMounted
    /\ pagesIdle

NextCoordinator ==
    \/ \E extensionId \in ExtensionIds : platformDetected(extensionId) /\ UNCHANGED <<extensionVars, pageVars, pkceVars>>
    \/ \E name \in DetectionErrors : platformFailed(name) /\ UNCHANGED <<extensionVars, pageVars, pkceVars>>
    \/ useAuthentication_login /\ UNCHANGED <<extensionVars, pageVars, pkceVars>>
    \/ \E t \in BagToSet(tasks) :
          useAuthentication_login_accessSettled(t) /\ UNCHANGED <<extensionVars, pageVars, pkceVars>>
    \/ \E t \in BagToSet(tasks) :
          useAuthentication_login_buildSettled(t) /\ UNCHANGED <<extensionVars, pageVars, pkceVars>>
    \/ \E t \in BagToSet(tasks) :
          useAuthentication_fetchUserInfo_settled(t) /\ UNCHANGED <<extensionVars, pageVars, pkceVars>>
    \/ useAuthentication_logout /\ UNCHANGED <<extensionVars, pageVars, pkceVars>>
    \/ \E c \in Suspended, e \in BridgeErrors :
          requestResourceAccess_bridgeRejects(c, e) /\ settles("requestResourceAccess", 0)
          /\ UNCHANGED <<extensionVars, pageVars, pkceVars>>
    \/ \E c \in Suspended, body \in AccessBodies :
          requestResourceAccess_bridgeResolves(c, body) /\ settles("requestResourceAccess", 0)
          /\ UNCHANGED <<extensionVars, pageVars, pkceVars>>
    \/ \E c \in Suspended :
          buildAuthUrl_digestResolves(c) /\ settles("buildAuthUrl", c.n)
          /\ UNCHANGED <<extensionVars, pageVars, pkceVars>>
    \/ \E c \in Suspended, e \in BridgeErrors :
          fetchUserInfo_bridgeRejects(c, e) /\ settles("fetchUserInfo", 0)
          /\ UNCHANGED <<extensionVars, pageVars, pkceVars>>
    \/ \E c \in Suspended, body \in UserBodies :
          fetchUserInfo_bridgeResolves(c, body) /\ settles("fetchUserInfo", 0)
          /\ UNCHANGED <<extensionVars, pageVars, pkceVars>>

SpecCoordinator == InitCoordinator /\ [][NextCoordinator]_<<vars, coordinatorVars>>

----------------------------------------------------------------------------
\* The encoding of generatePKCEChallenge (src/src/lib/oauth.ts, lines 28-36):
\* the digest is turned into a binary string, encoded by btoa, and the three
\* replace calls make the text URL-safe.  A byte is a number of 0 .. 255, a
\* text the sequence of its characters.

\* The length in bytes of a SHA-256 digest (line 31).
DigestLength == 32

\* The digests encoded: the first MaxVaried bytes are any of ByteValues, and the
\* rest of the 32 bytes are one of them repeated.
MaxVaried == 3

\* Bytes whose sextets include 62 and 63 (the characters + and / of btoa).
ByteValues == { 0, 105, 251, 255 }

Digests ==
    { [ i \in 1 .. DigestLength |-> IF i <= MaxVaried THEN head[i] ELSE rest ] :
      head \in [ 1 .. MaxVaried -> ByteValues ], rest \in ByteValues }

\* The alphabet of btoa (base64, RFC 4648 section 4), by sextet 0 .. 63.
Base64Alphabet ==
    << "A", "B", "C", "D", "E", "F", "G", "H", "I", "J", "K", "L", "M", "N", "O", "P",
       "Q", "R", "S", "T", "U", "V", "W", "X", "Y", "Z", "a", "b", "c", "d", "e", "f",
       "g", "h", "i", "j", "k", "l", "m", "n", "o", "p", "q", "r", "s", "t", "u", "v",
       "w", "x", "y", "z", "0", "1", "2", "3", "4", "5", "6", "7", "8", "9", "+", "/" >>

\* btoa(String.fromCharCode(...bytes)): each group of three bytes gives four
\* characters; a last group of one or two bytes is padded with "=".
btoa(bytes) ==
    LET byte(i) == IF i <= Len(bytes) THEN bytes[i] ELSE 0
        char(j) ==
            LET first == 3 * ( ( j - 1 ) \div 4 ) + 1
                b1 == byte(first)
                b2 == byte(first + 1)
                b3 == byte(first + 2)
                pos == ( j - 1 ) % 4
            IN  IF pos = 0 THEN Base64Alphabet[ ( b1 \div 4 ) + 1 ]
                ELSE IF pos = 1 THEN Base64Alphabet[ ( b1 % 4 ) * 16 + ( b2 \div 16 ) + 1 ]
                ELSE IF pos = 2
                THEN IF first + 1 > Len(bytes) THEN "="
                     ELSE Base64Alphabet[ ( b2 % 16 ) * 4 + ( b3 \div 64 ) + 1 ]
                ELSE IF first + 2 > Len(bytes) THEN "="
                     ELSE Base64Alphabet[ ( b3 % 64 ) + 1 ]
    IN  [ j \in 1 .. 4 * ( ( Len(bytes) + 2 ) \div 3 ) |-> char(j) ]

\* text.replace(/from/g, to) for a pattern of one character.
replace(text, from, to) ==
    [ i \in 1 .. Len(text) |-> IF text[i] = from THEN to ELSE text[i] ]

\* A faulty variant of remove: nothing is removed.
remove_nothing(text, from) == text

\* text.replace(/from/g, '') for a pattern of one character.
remove(text, from) == SelectSeq(text, LAMBDA ch : ch # from)

\* The return value of generatePKCEChallenge for the digest (lines 32-35).
challengeOf(digest) ==
    remove(replace(replace(btoa(digest), "+", "-"), "/", "_"), "=")

\* crypto.subtle.digest has resolved: generatePKCEChallenge returns the
\* challenge of the digest.  The digest of a verifier is always the same, so a
\* second call with the verifier encodes the same digest.
generatePKCEChallenge_digestResolves ==
    /\ pkce' = [ pkce EXCEPT !.challenge = Str(challengeOf(pkce.digest)) ]
    /\ UNCHANGED <<vars, extensionVars, coordinatorVars, pageVars, random>>

InitPKCE ==
    /\ localStorage = [ k \in STORAGE_KEYS |-> Null ]
    /\ isExchangingTokens = FALSE
    /\ pending = EmptyBag
    /\ generated = 0
    /\ requested = {}
    /\ last = Report("load", "resolved", << >>, 0, 0)
    /\ now = 0
    /\ bodhiext = FALSE
    /\ loader = loaderIdle
    /\ forwarded = << >>
    /\ calls = EmptyBag
    /\ reply = HandleReport("", "none", "")
    /\ hooksMounted
    /\ detection = [ mounted |-> FALSE, pc |-> "idle" ]
    /\ callbackPage = [ mounted |-> FALSE, pc |-> "idle",
                        state |-> [ status |-> "loading", message |-> "" ],
                        navigated |-> FALSE, run |-> 0 ]
    /\ pkce \in [ digest : Digests, challenge : { Null } ]
    /\ random = [ array |-> << >>, text |-> << >> ]

NextPKCE == generatePKCEChallenge_digestResolves

SpecPKCE == InitPKCE /\ [][NextPKCE]_pkceVars

----------------------------------------------------------------------------
\* PKCEUtils.generateRandomString (src/src/lib/oauth.ts, lines 22-26).

\* The values of an element of a Uint8Array.
Bytes == 0 .. 255

\* The longest array filled in.
MaxLength == 2

\* The bytes after the first of an array: the first and the last byte value
\* and the two around the last multiple of 26 below 256.
TailBytes == { 0, 233, 234, 255 }

\* The arrays crypto.getRandomValues may leave (line 24): the first byte is
\* any byte, the others are any of TailBytes.
RandomArrays ==
    { [ i \in 1 .. length |-> IF i = 1 THEN first ELSE tail[i] ] :
      first \in Bytes, length \in 1 .. MaxLength, tail \in [ 1 .. MaxLength -> TailBytes ] }

\* The lowercase letters, by char code 97 .. 122.
Letters ==
    << "a", "b", "c", "d", "e", "f", "g", "h", "i", "j", "k", "l", "m",
       "n", "o", "p", "q", "r", "s", "t", "u", "v", "w", "x", "y", "z" >>

\* String.fromCharCode(code) for the code of a lowercase letter.
fromCharCode(code) == Letters[code - 96]

\* A faulty variant of letterOf: the byte is reduced modulo 32.
letterOf_mod32(byte) == fromCharCode(( ( byte % 32 ) % 26 ) + 97)

\* The mapping of line 25: byte => String.fromCharCode((byte % 26) + 97).
letterOf(byte) == fromCharCode(( byte % 26 ) + 97)

\* The return value of generateRandomString for the array filled in (line 25):
\* Array.from(array, ...).join('').
generateRandomString(array) == [ i \in 1 .. Len(array) |-> letterOf(array[i]) ]

\* generateRandomString(length) returns for the array crypto.getRandomValues
\* filled in.
generateRandomString_call ==
    /\ random.text = Null
    /\ random' = [ random EXCEPT !.text = Str(generateRandomString(random.array)) ]
    /\ UNCHANGED <<vars, extensionVars, coordinatorVars, pageVars, pkce>>

InitRandom ==
    /\ localStorage = [ k \in STORAGE_KEYS |-> Null ]
    /\ isExchangingTokens = FALSE
    /\ pending = EmptyBag
    /\ generated = 0
    /\ requested = {}
    /\ last = Report("load", "resolved", << >>, 0, 0)
    /\ now = 0
    /\ bodhiext = FALSE
    /\ loader = loaderIdle
    /\ forwarded = << >>
    /\ calls = EmptyBag
    /\ reply = HandleReport("", "none", "")
    /\ hooksMounted
    /\ detection = [ mounted |-> FALSE, pc |-> "idle" ]
    /\ callbackPage = [ mounted |-> FALSE, pc |-> "idle",
                        state |-> [ status |-> "loading", message |-> "" ],
                        navigated |-> FALSE, run |-> 0 ]
    /\ pkce = [ digest |-> << >>, challenge |-> << >> ]
    /\ random \in [ array : RandomArrays, text : { Null } ]

NextRandom == generateRandomString_call

SpecRandom == InitRandom /\ [][NextRandom]_pkceVars

----------------------------------------------------------------------------
\* The manager on a persisted session, its calls made one after another.
\*
\* localStorage outlives the page and is shared by the tabs of the origin, so
\* a page finds any of the six entries present or absent: written by an
\* earlier session, removed since by a logout of another tab or by the user.

\* getUserInfo() is called (lines 159-167): the catch block turns a failure of
\* JSON.parse into null, so the call returns.
getUserInfo_call ==
    /\ last' = Handing(Report("getUserInfo", "resolved", << >>, 0, 0), getUserInfo(localStorage))
    /\ UNCHANGED <<localStorage, isExchangingTokens, pending, generated, requested>>

\* setUserInfo(info) is called (lines 169-171).
setUserInfo_call(info) ==
    /\ localStorage' = setUserInfo(localStorage, info)
    /\ last' = Report("setUserInfo", "resolved", << >>, 0, 0)
    /\ UNCHANGED <<isExchangingTokens, pending, generated, requested>>

\* The values setUserInfo is called with.
UserInfos == { userInfoOf(body) : body \in UserBodies }

\* The entries of an earlier session: the scope scope_0 it was granted, the
\* tokens at_0 and rt_0 it was issued,
\* the PKCE pair 1 it generated, the user info it cached or a text that does
\* not parse.
PersistedSessions ==
    { [ k \in STORAGE_KEYS |->
          IF k = "bodhi_resource_scope" THEN scope
          ELSE IF k = "bodhi_access_token" THEN access
          ELSE IF k = "bodhi_refresh_token" THEN refresh
          ELSE IF k = "bodhi_code_verifier" THEN verifier
          ELSE IF k = "bodhi_state" THEN state
          ELSE info ] :
      scope \in { Null, Str("scope_0") }, access \in { Null, Str("at_0") },
      refresh \in { Null, Str("rt_0") }, verifier \in { Null, Str(1) },
      state \in { Null, Str(1) }, info \in StoredUserInfos }

\* No call of the manager is suspended.
Idle == pending = EmptyBag

InitSession ==
    /\ localStorage \in PersistedSessions
    /\ isExchangingTokens = FALSE
    /\ pending = EmptyBag
    /\ generated = 1
    /\ requested = {}
    /\ last = Report("load", "resolved", << >>, 0, 0)
    /\ now = 0
    /\ bodhiext = FALSE
    /\ loader = loaderIdle
    /\ forwarded = << >>
    /\ calls = EmptyBag
    /\ reply = HandleReport("", "none", "")
    /\ hooksMounted
    /\ pagesIdle

NextSession ==
    \/ Idle /\ requestResourceAccess_call
          /\ UNCHANGED <<extensionVars, coordinatorVars, pageVars, pkceVars>>
    \/ \E c \in Suspended, e \in BridgeErrors : requestResourceAccess_bridgeRejects(c, e)
          /\ UNCHANGED <<extensionVars, coordinatorVars, pageVars, pkceVars>>
    \/ \E c \in Suspended, body \in AccessBodies : requestResourceAccess_bridgeResolves(c, body)
          /\ UNCHANGED <<extensionVars, coordinatorVars, pageVars, pkceVars>>
    \/ Idle /\ buildAuthUrl_call
          /\ UNCHANGED <<extensionVars, coordinatorVars, pageVars, pkceVars>>
    \/ \E c \in Suspended : buildAuthUrl_digestResolves(c)
          /\ UNCHANGED <<extensionVars, coordinatorVars, pageVars, pkceVars>>
    \/ \E code \in Codes, state \in 0 .. generated :
          Idle /\ exchangeCodeForTokens(code, state)
          /\ UNCHANGED <<extensionVars, coordinatorVars, pageVars, pkceVars>>
    \/ \E c \in Suspended, e \in NetworkErrors : exchangeCodeForTokens_fetchRejects(c, e)
          /\ UNCHANGED <<extensionVars, coordinatorVars, pageVars, pkceVars>>
    \/ \E c \in Suspended, status \in OkStatuses \cup ErrorStatuses :
          exchangeCodeForTokens_fetchResolves(c, status)
          /\ UNCHANGED <<extensionVars, coordinatorVars, pageVars, pkceVars>>
    \/ \E c \in Suspended, errorText \in ErrorTexts : exchangeCodeForTokens_textResolves(c, errorText)
          /\ UNCHANGED <<extensionVars, coordinatorVars, pageVars, pkceVars>>
    \/ \E c \in Suspended, e \in BodyErrors : exchangeCodeForTokens_bodyRejects(c, e)
          /\ UNCHANGED <<extensionVars, coordinatorVars, pageVars, pkceVars>>
    \/ \E c \in Suspended, tokenData \in TokenDatas : exchangeCodeForTokens_jsonResolves(c, tokenData)
          /\ UNCHANGED <<extensionVars, coordinatorVars, pageVars, pkceVars>>
    \/ Idle /\ fetchUserInfo_call
          /\ UNCHANGED <<extensionVars, coordinatorVars, pageVars, pkceVars>>
    \/ \E c \in Suspended, e \in BridgeErrors : fetchUserInfo_bridgeRejects(c, e)
          /\ UNCHANGED <<extensionVars, coordinatorVars, pageVars, pkceVars>>
    \/ \E c \in Suspended, body \in UserBodies : fetchUserInfo_bridgeResolves(c, body)
          /\ UNCHANGED <<extensionVars, coordinatorVars, pageVars, pkceVars>>
    \/ Idle /\ getUserInfo_call
          /\ UNCHANGED <<extensionVars, coordinatorVars, pageVars, pkceVars>>
    \/ \E info \in UserInfos : Idle /\ setUserInfo_call(info)
          /\ UNCHANGED <<extensionVars, coordinatorVars, pageVars, pkceVars>>
    \/ Idle /\ logout
          /\ UNCHANGED <<extensionVars, coordinatorVars, pageVars, pkceVars>>

SpecSession == InitSession /\ [][NextSession]_vars

----------------------------------------------------------------------------
\* The two routes of the application: HomePage at "/", whose hook
\* usePlatformDetection (src/src/hooks/usePlatformDetection.ts) awaits
\* loadExtensionClient, and CallbackPage at "/callback"
\* (src/src/pages/CallbackPage.tsx), whose effect awaits exchangeCodeForTokens.
\*
\* Each effect holds a flag `mounted`, set false by the effect's cleanup when
\* the component unmounts.  A page load mounts one of the two pages.

\* A faulty variant of guarded: the flag is not looked at.
guarded_unchecked(mounted, old, new) == new

\* `if (!mounted) return;` before a commit (usePlatformDetection.ts lines 31 and
\* 40, CallbackPage.tsx lines 56, 60 and 63): the value after the guarded
\* commit of `new` over `old`.
guarded(mounted, old, new) == IF mounted THEN new ELSE old

\* The timeouts the hook is run with.  usePlatformDetection passes 5000 ms (line
\* 29), fifty poll intervals; the model runs it with the timeouts of Timeouts
\* that, like 5000 ms, are no shorter than the poll interval.
DetectionTimeouts == { timeout \in Timeouts : timeout >= PollInterval }

\* The effect of usePlatformDetection runs (lines 22-52): detectExtension sets
\* the status detecting and calls loadExtensionClient({ timeout }).
usePlatformDetection_mount(timeout, idThrows) ==
    /\ detection.pc = "idle"
    /\ callbackPage.pc = "idle"
    /\ detection' = [ mounted |-> TRUE, pc |-> "awaiting" ]
    /\ platformState' = [ platformState EXCEPT !.status = "detecting", !.error = Null ]
    /\ loadExtensionClient(timeout, idThrows)
    /\ UNCHANGED <<authStatus, userInfo, authError, tasks, href, vars, callbackPage>>

\* The cleanup of the effect (lines 54-56): the component unmounts.
usePlatformDetection_unmount ==
    /\ detection.mounted
    /\ detection' = [ detection EXCEPT !.mounted = FALSE ]
    /\ UNCHANGED <<coordinatorVars, vars, extensionVars, callbackPage>>

\* loadExtensionClient has settled: detectExtension goes on after its await
\* (lines 31-49).  The detected state makes the effect of useAuthentication run.
detectExtension_settled ==
    /\ detection.pc = "awaiting"
    /\ loader.pc \in { "resolved", "rejected" }
    /\ detection' = [ detection EXCEPT !.pc = "done" ]
    /\ platformState' = guarded(detection.mounted, platformState,
                                IF loader.pc = "resolved"
                                THEN detectedState(loader.result)
                                ELSE errorState(loader.result))
    /\ IF detection.mounted /\ loader.pc = "resolved"
       THEN checkExistingAuth
       ELSE UNCHANGED <<authStatus, userInfo, authError, tasks, vars>>
    /\ UNCHANGED <<href, extensionVars, callbackPage>>

\* The query parameters the identity provider redirects to /callback with.
SearchParams ==
    [ code : { Null } \cup { Str(c) : c \in Codes },
      state : { Null } \cup { Str(n) : n \in Nonces },
      error : { Null, Str("access_denied"), Str("server_error") },
      error_description : { Null, Str("The user said no") } ]

\* The states of CallbackPage (lines 9-13); message is the step or the message.
ProcessingState(status, message) == [ status |-> status, message |-> message ]

\* A faulty variant of paramsError: the error parameter is not looked at.
paramsError_ignoresError(params) ==
    IF ~Truthy(params.code)
    THEN Str(ProcessingState("error", << "Authorization code not found" >>))
    ELSE IF ~Truthy(params.state)
    THEN Str(ProcessingState("error", << "State parameter not found" >>))
    ELSE Null

\* The error state processCallback sets before it calls anything (lines 32-50),
\* null if it sets none.
paramsError(params) ==
    IF Truthy(params.error)
    THEN LET errorMessage == IF Truthy(params.error_description)
                             THEN params.error_description[1]
                             ELSE params.error[1]
         IN  Str(ProcessingState("error",
                                 IF errorMessage = "access_denied"
                                 THEN << "User denied access to the application" >>
                                 ELSE << "OAuth error: ", errorMessage >>))
    ELSE IF ~Truthy(params.code)
    THEN Str(ProcessingState("error", << "Authorization code not found" >>))
    ELSE IF ~Truthy(params.state)
    THEN Str(ProcessingState("error", << "State parameter not found" >>))
    ELSE Null

\* The effect of CallbackPage runs (lines 20-72): processCallback up to its
\* await of exchangeCodeForTokens, or to the return after an error state.
CallbackPage_mount(params) ==
    /\ callbackPage.pc = "idle"
    /\ detection.pc = "idle"
    /\ IF Truthy(paramsError(params))
       THEN /\ callbackPage' = [ callbackPage EXCEPT !.mounted = TRUE, !.pc = "done",
                                                     !.state = paramsError(params)[1] ]
            /\ UNCHANGED <<tasks, vars>>
       ELSE /\ callbackPage' =
                  [ callbackPage EXCEPT
                      !.mounted = TRUE, !.pc = "awaiting",
                      !.state = ProcessingState("processing",
                                   << "Exchanging authorization code for token..." >>) ]
            /\ exchangeCodeForTokens(params.code[1], params.state[1])
            /\ LET t == Task("processCallback", "exchangeCodeForTokens", 0)
               IN  tasks' = tasks (+) SetToBag({ IF last'.kind = "pending"
                                                 THEN t
                                                 ELSE Settled(t, last') })
    /\ UNCHANGED <<platformState, authStatus, userInfo, authError, href, extensionVars,
                   detection>>

\* The effect of CallbackPage runs again while the page is shown (React runs
\* the cleanup of line 72 and then the effect when searchParams or navigate
\* changes, and on a duplicate mount): the flag of the earlier run is cleared,
\* and processCallback runs with a flag of its own.  The runs are numbered; a
\* task carries the number of its run, and the flag of the last run is
\* callbackPage.mounted.
CallbackPage_rerun(params) ==
    /\ callbackPage.mounted
    /\ callbackPage.pc # "idle"
    /\ callbackPage.run < MaxReruns
    /\ IF Truthy(paramsError(params))
       THEN /\ callbackPage' = [ callbackPage EXCEPT !.run = @ + 1, !.pc = "done",
                                                     !.state = paramsError(params)[1] ]
            /\ UNCHANGED <<tasks, vars>>
       ELSE /\ callbackPage' =
                  [ callbackPage EXCEPT
                      !.run = @ + 1, !.pc = "awaiting",
                      !.state = ProcessingState("processing",
                                   << "Exchanging authorization code for token..." >>) ]
            /\ exchangeCodeForTokens(params.code[1], params.state[1])
            /\ LET t == Task("processCallback", "exchangeCodeForTokens", callbackPage.run + 1)
               IN  tasks' = tasks (+) SetToBag({ IF last'.kind = "pending"
                                                 THEN t
                                                 ELSE Settled(t, last') })
    /\ UNCHANGED <<platformState, authStatus, userInfo, authError, href, extensionVars,
                   detection>>

\* The cleanup of the effect (line 72): the component unmounts.
CallbackPage_unmount ==
    /\ callbackPage.mounted
    /\ callbackPage' = [ callbackPage EXCEPT !.mounted = FALSE ]
    /\ UNCHANGED <<coordinatorVars, vars, extensionVars, detection>>

\* exchangeCodeForTokens has settled: processCallback goes on after its await
\* (lines 56-69).  On success it sets the success state and arms the timer of
\* the redirect.
CallbackPage_settled(t) ==
    /\ t.op = "processCallback" /\ t.settled
    /\ tasks' = tasks (-) SetToBag({ t })
    /\ callbackPage' =
          IF t.n = callbackPage.run
          THEN [ callbackPage EXCEPT
                   !.pc = IF callbackPage.mounted /\ t.kind = "resolved"
                          THEN "timer" ELSE "done",
                   !.state = guarded(callbackPage.mounted, callbackPage.state,
                                     IF t.kind = "resolved"
                                     THEN ProcessingState("success", << >>)
                                     ELSE ProcessingState("error", t.msg)) ]
          ELSE [ callbackPage EXCEPT
                   !.state = guarded(FALSE, callbackPage.state,
                                     IF t.kind = "resolved"
                                     THEN ProcessingState("success", << >>)
                                     ELSE ProcessingState("error", t.msg)) ]
    /\ UNCHANGED <<platformState, authStatus, userInfo, authError, href, vars, extensionVars,
                   detection>>

\* The timer of the redirect fires (lines 59-61).
CallbackPage_timer ==
    /\ callbackPage.pc = "timer"
    /\ callbackPage' = [ callbackPage EXCEPT
                           !.pc = "done",
                           !.navigated = guarded(callbackPage.mounted, callbackPage.navigated,
                                                 TRUE) ]
    /\ UNCHANGED <<coordinatorVars, vars, extensionVars, detection>>

\* The button Return to Home (line 76), shown in the success and the error
\* state: navigate('/') leaves the route, so the page unmounts.
handleReturnHome ==
    /\ callbackPage.mounted
    /\ callbackPage.state.status \in { "success", "error" }
    /\ callbackPage' = [ callbackPage EXCEPT !.navigated = TRUE, !.mounted = FALSE ]
    /\ UNCHANGED <<coordinatorVars, vars, extensionVars, detection>>

\* The button Retry (line 77), shown in the error state: the page is loaded
\* again.
handleRetry ==
    /\ callbackPage.mounted
    /\ callbackPage.state.status = "error"
    /\ pageLoad
    /\ tasks' = EmptyBag
    /\ callbackPage' = [ mounted |-> FALSE, pc |-> "idle",
                         state |-> ProcessingState("loading", ""),
                         navigated |-> FALSE, run |-> 0 ]
    /\ UNCHANGED <<platformState, authStatus, userInfo, authError, href, extensionVars,
                   detection>>

\* A manager call the page awaits settles in this step.
pageSettles(pc) ==
    /\ IF \E n \in 0 .. MaxReruns : Awaiting(pc, n) # {}
       THEN \E n \in 0 .. MaxReruns : Awaiting(pc, n) # {} /\ deliver(pc, n)
       ELSE UNCHANGED tasks
    /\ UNCHANGED <<platformState, authStatus, userInfo, authError, href, extensionVars,
                   pageVars>>

\* The sessions a page load may find before a login has completed: nothing, or
\* the scope and the PKCE pair 1 that login persisted before it left the page.
PendingLogins ==
    { [ k \in STORAGE_KEYS |-> Null ],
      [ k \in STORAGE_KEYS |->
          IF k = "bodhi_resource_scope" THEN Str("scope_a")
          ELSE IF k \in { "bodhi_state", "bodhi_code_verifier" } THEN Str(1)
          ELSE Null ] }

\* A page load at "/" or at "/callback".
InitPages ==
    /\ localStorage \in PendingLogins
    /\ isExchangingTokens = FALSE
    /\ pending = EmptyBag
    /\ generated = 1
    /\ requested = {}
    /\ last = Report("load", "resolved", << >>, 0, 0)
    /\ now = 0
    /\ bodhiext = FALSE
    /\ loader = loaderIdle
    /\ forwarded = << >>
    /\ calls = EmptyBag
    /\ reply = HandleReport("", "none", "")
    /\ hooksMounted
    /\ pagesIdle

NextPages ==
    \/ \E timeout \in DetectionTimeouts, idThrows \in { "" } \cup IdErrors :
          usePlatformDetection_mount(timeout, idThrows) /\ UNCHANGED pkceVars
    \/ usePlatformDetection_unmount /\ UNCHANGED pkceVars
    \/ detectExtension_settled /\ UNCHANGED pkceVars
    \/ \E idThrows \in { "" } \cup IdErrors :
          checkExtension_timer(idThrows) /\ UNCHANGED <<vars, coordinatorVars, pageVars, pkceVars>>
    \/ \E extensionId \in ExtensionIds :
          getExtensionId_resolves(extensionId)
          /\ UNCHANGED <<vars, coordinatorVars, pageVars, pkceVars>>
    \/ \E name \in IdErrors :
          getExtensionId_rejects(name) /\ UNCHANGED <<vars, coordinatorVars, pageVars, pkceVars>>
    \/ race_timer /\ UNCHANGED <<vars, coordinatorVars, pageVars, pkceVars>>
    \/ tick /\ UNCHANGED <<vars, coordinatorVars, pageVars, pkceVars>>
    \/ bodhiext_defined /\ UNCHANGED <<vars, coordinatorVars, pageVars, pkceVars>>
    \/ bodhiext_removed /\ UNCHANGED <<vars, coordinatorVars, pageVars, pkceVars>>
    \/ \E params \in SearchParams : CallbackPage_mount(params) /\ UNCHANGED pkceVars
    \/ \E params \in SearchParams : CallbackPage_rerun(params) /\ UNCHANGED pkceVars
    \/ CallbackPage_unmount /\ UNCHANGED pkceVars
    \/ \E t \in BagToSet(tasks) : CallbackPage_settled(t) /\ UNCHANGED pkceVars
    \/ CallbackPage_timer /\ UNCHANGED pkceVars
    \/ handleReturnHome /\ UNCHANGED pkceVars
    \/ handleRetry /\ UNCHANGED pkceVars
    \/ \E c \in Suspended, e \in NetworkErrors :
          /\ exchangeCodeForTokens_fetchRejects(c, e)
          /\ pageSettles("exchangeCodeForTokens")
          /\ UNCHANGED pkceVars
    \/ \E c \in Suspended, status \in OkStatuses \cup ErrorStatuses :
          /\ exchangeCodeForTokens_fetchResolves(c, status)
          /\ UNCHANGED <<coordinatorVars, extensionVars, pageVars, pkceVars>>
    \/ \E c \in Suspended, errorText \in ErrorTexts :
          /\ exchangeCodeForTokens_textResolves(c, errorText)
          /\ pageSettles("exchangeCodeForTokens")
          /\ UNCHANGED pkceVars
    \/ \E c \in Suspended, e \in BodyErrors :
          /\ exchangeCodeForTokens_bodyRejects(c, e)
          /\ pageSettles("exchangeCodeForTokens")
          /\ UNCHANGED pkceVars
    \/ \E c \in Suspended, tokenData \in TokenDatas :
          /\ exchangeCodeForTokens_jsonResolves(c, tokenData)
          /\ pageSettles("exchangeCodeForTokens")
          /\ UNCHANGED pkceVars

SpecPages ==
    InitPages /\ [][NextPages]_<<vars, extensionVars, coordinatorVars, pageVars>>

\* The event loop at work: the clock advances, a timer that is due fires, and
\* the continuation of a settled await runs.  Nothing makes getExtensionId()
\* settle, the capability object appear or the user act.
SpecPagesFair ==
    /\ SpecPages
    /\ WF_extensionVars(tick)
    /\ WF_extensionVars(\E idThrows \in { "" } \cup IdErrors : checkExtension_timer(idThrows))
    /\ WF_extensionVars(race_timer)
    /\ WF_pageVars(detectExtension_settled)

----------------------------------------------------------------------------
\* Observations used by the properties.

\* The suspended exchangeCodeForTokens calls of a bag whose token-endpoint
\* request has been sent and has not settled.
TokenRequests(b) ==
    LET S == { c \in BagToSet(b) : c.op = "exchangeCodeForTokens" /\ c.pc = "fetch" }
    IN  [ c \in S |-> b[c] ]

TokenRequestsInFlight(b) == BagCardinality(TokenRequests(b))

\* The suspended exchangeCodeForTokens calls of a bag, at any of their awaits.
ExchangeCalls(b) ==
    LET S == { c \in BagToSet(b) : c.op = "exchangeCodeForTokens" }
    IN  [ c \in S |-> b[c] ]

\* C1: at any time at most one token-endpoint request issued by
\* exchangeCodeForTokens has been sent and has not yet settled.
C1_AtMostOneExchangeInFlight == TokenRequestsInFlight(pending) <= 1


\* C2: an exchangeCodeForTokens call made with a valid (code, state) while
\* unauthenticated and while an earlier call with the same (code, state) is
\* still pending is a silent no-op: it returns without error, sends no request
\* and changes no persisted key.
C2_SecondCallIsNoOp ==
    [][ \A code \in Codes, state \in Nonces :
          ( /\ exchangeCodeForTokens(code, state)
            /\ ~isAuthenticated(localStorage)
            /\ localStorage["bodhi_state"] = Str(state)
            /\ Truthy(localStorage["bodhi_code_verifier"])
            /\ \E c \in BagToSet(ExchangeCalls(pending)) : c.code = code /\ c.state = state )
          => /\ last'.kind = "resolved"
             /\ TokenRequestsInFlight(pending') = TokenRequestsInFlight(pending)
             /\ localStorage' = localStorage ]_vars


\* The two guards at the head of exchangeCodeForTokens let the call through.
PassesGuards == ~isAuthenticated(localStorage) /\ ~isExchangingTokens

\* The state argument differs from the persisted state, or none is persisted.
StateMismatch(state) == localStorage["bodhi_state"] # Str(state)

\* This step issues no token-endpoint request.
NoRequestIssued == TokenRequestsInFlight(pending') <= TokenRequestsInFlight(pending)

\* C3 as stated: whenever the supplied state differs from the persisted state
\* (or none is persisted) the call rejects with "Invalid state parameter" and
\* issues no token-endpoint request.
C3_MismatchAlwaysRejects ==
    [][ \A code \in Codes, state \in Nonces :
          ( exchangeCodeForTokens(code, state) /\ StateMismatch(state) )
          => /\ last'.kind = "rejected"
             /\ last'.msg = << "Invalid state parameter" >>
             /\ NoRequestIssued ]_vars

\* C3 as amended: a call whose state differs from the persisted state (or finds
\* none persisted) issues no token-endpoint request; it rejects with "Invalid
\* state parameter" when it passes the two guards, and returns as a no-op when
\* an access token is persisted or an exchange is in progress.
C3_MismatchSendsNothing ==
    [][ \A code \in Codes, state \in Nonces :
          ( exchangeCodeForTokens(code, state) /\ StateMismatch(state) )
          => /\ NoRequestIssued
             /\ pending' = pending
             /\ last'.reqs = 0
             /\ IF PassesGuards
                THEN last'.kind = "rejected" /\ last'.msg = << "Invalid state parameter" >>
                ELSE last'.kind = "resolved" ]_vars

\* A call with a state other than the persisted one was rejected.
C3_Witness ==
    /\ last.op = "exchangeCodeForTokens"
    /\ last.kind = "rejected"
    /\ last.msg = << "Invalid state parameter" >>
    /\ Truthy(localStorage["bodhi_state"])
    /\ localStorage["bodhi_state"] # Str(last.arg)
    /\ Truthy(localStorage["bodhi_code_verifier"])

\* C4: exchangeCodeForTokens called while an access token is persisted returns
\* without error, issues no request and leaves every persisted key and the
\* in-flight flag unchanged, whatever code and state are supplied.
C4_AuthenticatedIsNoOp ==
    [][ \A code \in Codes, state \in Nonces :
          ( exchangeCodeForTokens(code, state) /\ isAuthenticated(localStorage) )
          => /\ last'.kind = "resolved"
             /\ last'.reqs = 0
             /\ pending' = pending
             /\ localStorage' = localStorage
             /\ isExchangingTokens' = isExchangingTokens ]_vars

\* An authenticated call returned as a no-op although its state matched the
\* persisted one and no exchange was in progress.
C4_Witness ==
    /\ last.op = "exchangeCodeForTokens"
    /\ last.kind = "resolved"
    /\ last.reqs = 0
    /\ isAuthenticated(localStorage)
    /\ ~isExchangingTokens
    /\ localStorage["bodhi_state"] = Str(last.arg)

\* C5: logout removes all six persisted keys and clears the in-flight flag;
\* right after it isAuthenticated() is false and getUserInfo() is null.
C5_LogoutClearsSession ==
    [][ logout
        => /\ \A k \in STORAGE_KEYS : localStorage'[k] = Null
           /\ ~isExchangingTokens'
           /\ ~isAuthenticated(localStorage')
           /\ getUserInfo(localStorage') = Null ]_vars

\* logout ran while an exchange that had set the flag was waiting for the token
\* endpoint.
C5_Witness ==
    /\ last.op = "logout"
    /\ TokenRequestsInFlight(pending) = 1
    /\ \A k \in STORAGE_KEYS : localStorage[k] = Null

\* This step settles an exchangeCodeForTokens call that had set the flag: a
\* suspended call leaves `pending`, or a call that passes the guards is rejected
\* before its request.
SettlesFlagHolder ==
    \/ /\ BagCardinality(ExchangeCalls(pending')) < BagCardinality(ExchangeCalls(pending))
       /\ last'.op = "exchangeCodeForTokens"
    \/ /\ \E code \in Codes, state \in Nonces : exchangeCodeForTokens(code, state)
       /\ PassesGuards
       /\ last'.kind = "rejected"

\* C6: every exchangeCodeForTokens call that set the in-flight flag leaves it
\* cleared when it settles, whatever the outcome, so that the in-progress guard
\* does not swallow the next call.
C6_FlagReleasedOnSettle ==
    [][ SettlesFlagHolder
        => /\ ~isExchangingTokens'
           /\ \A code \in Codes, state \in Nonces :
                 exchangeSync(localStorage', isExchangingTokens', code, state).kind = "resolved"
                 => isAuthenticated(localStorage') ]_vars

\* An exchange that sent its request was rejected and the flag is clear.
C6_Witness ==
    /\ last.op = "exchangeCodeForTokens"
    /\ last.kind = "rejected"
    /\ last.reqs = 1
    /\ ~isExchangingTokens


\* C7: when the token endpoint answered with a success status and
\* response.json() gives token data with an access token, the call persists
\* that access token, persists the refresh token exactly when the response
\* carries one, deletes the persisted state and codeVerifier, and leaves
\* isAuthenticated() true.
C7_SuccessPersistsTokens ==
    [][ \A c \in Suspended, tokenData \in TokenDatas :
          ( exchangeCodeForTokens_jsonResolves(c, tokenData) /\ Truthy(tokenData.access_token) )
          => /\ last'.kind = "resolved"
             /\ localStorage'["bodhi_access_token"] = tokenData.access_token
             /\ localStorage'["bodhi_refresh_token"] =
                   IF Truthy(tokenData.refresh_token) THEN tokenData.refresh_token
                   ELSE localStorage["bodhi_refresh_token"]
             /\ localStorage'["bodhi_state"] = Null
             /\ localStorage'["bodhi_code_verifier"] = Null
             /\ isAuthenticated(localStorage') ]_vars

\* An exchange succeeded with a response that carried a refresh token.
C7_Witness ==
    /\ last.op = "exchangeCodeForTokens"
    /\ last.kind = "resolved"
    /\ last.reqs = 1
    /\ isAuthenticated(localStorage)
    /\ Truthy(localStorage["bodhi_refresh_token"])
    /\ ~Truthy(localStorage["bodhi_state"])

\* msg contains the part x.
Contains(msg, x) == \E i \in 1 .. Len(msg) : msg[i] = x

\* C8: when the token endpoint answers with a non-success status and a body
\* text, the call rejects with a message that contains the status code and the
\* body text, and persists no access or refresh token.
C8_ErrorStatusRejects ==
    [][ \A c \in Suspended, errorText \in ErrorTexts :
          exchangeCodeForTokens_textResolves(c, errorText)
          => /\ c.status \in ErrorStatuses
             /\ last'.kind = "rejected"
             /\ Contains(last'.msg, c.status)
             /\ Contains(last'.msg, errorText)
             /\ localStorage'["bodhi_access_token"] = localStorage["bodhi_access_token"]
             /\ localStorage'["bodhi_refresh_token"] = localStorage["bodhi_refresh_token"] ]_vars

\* An exchange was rejected for status 400 with body invalid_grant and no token
\* is persisted.
C8_Witness ==
    /\ last.op = "exchangeCodeForTokens"
    /\ last.kind = "rejected"
    /\ Contains(last.msg, "400")
    /\ Contains(last.msg, "invalid_grant")
    /\ ~isAuthenticated(localStorage)
    /\ ~Truthy(localStorage["bodhi_refresh_token"])

\* C10: buildAuthUrl called with no persisted resource scope fails with the
\* "call requestResourceAccess first" error, generates no pair and leaves
\* persisted storage unchanged (neither a state nor a codeVerifier is
\* persisted).
C10_BuildWithoutScopeFails ==
    [][ ( buildAuthUrl_call /\ ~Truthy(localStorage["bodhi_resource_scope"]) )
        => /\ last'.kind = "rejected"
           /\ last'.msg = << "Resource scope not found. Call requestResourceAccess first." >>
           /\ localStorage' = localStorage
           /\ pending' = pending
           /\ generated' = generated ]_vars

\* buildAuthUrl was rejected for the missing scope.
C10_Witness ==
    /\ last.op = "buildAuthUrl"
    /\ last.kind = "rejected"
    /\ ~Truthy(localStorage["bodhi_resource_scope"])
    /\ ~Truthy(localStorage["bodhi_state"])
    /\ ~Truthy(localStorage["bodhi_code_verifier"])


\* The pair generated by the n-th buildAuthUrl is the persisted one.
PairPersisted(st, n) == st["bodhi_state"] = Str(n) /\ st["bodhi_code_verifier"] = Str(n)

\* This step settles the suspended exchangeCodeForTokens call c.
Settles(c) ==
    /\ c.op = "exchangeCodeForTokens"
    /\ pending' = Resume(c)
    /\ last'.op = "exchangeCodeForTokens"
    /\ last'.kind # "pending"

\* C9 as stated: a persisted pair stays persisted through every step other
\* than logout and the settling of an exchange that used it; a pair is used
\* for at most one token-endpoint request; and once the exchange that used it
\* has settled the pair is no longer persisted.
C9_PairConsumedExactlyOnce ==
    [][ /\ \A n \in 1 .. MaxBuilds :
              ( PairPersisted(localStorage, n) /\ ~PairPersisted(localStorage', n) )
              => \/ logout
                 \/ \E c \in Suspended : Settles(c) /\ c.n = n
        /\ \A code \in Codes, state \in Nonces :
              ( exchangeCodeForTokens(code, state) /\ ~NoRequestIssued )
              => requested' # requested
        /\ \A c \in Suspended : Settles(c) => ~PairPersisted(localStorage', c.n) ]_vars

\* C9 as amended: a persisted state or codeVerifier entry is changed only by
\* logout, by a later buildAuthUrl (which replaces the pair with its own) and
\* by an exchangeCodeForTokens call that succeeds (which deletes both entries);
\* page loads and every other step, a failed exchange included, leave the pair
\* persisted, so that one pair can serve more than one token-endpoint request.
C9_PairPersistsUntilReplacedOrConsumed ==
    [][ /\ \A k \in { "bodhi_state", "bodhi_code_verifier" } :
              ( Truthy(localStorage[k]) /\ localStorage'[k] # localStorage[k] )
              => \/ logout
                 \/ \E c \in Suspended :
                       buildAuthUrl_digestResolves(c) /\ PairPersisted(localStorage', c.n)
                 \/ \E c \in Suspended, tokenData \in TokenDatas :
                       /\ exchangeCodeForTokens_jsonResolves(c, tokenData)
                       /\ Truthy(tokenData.access_token)
                       /\ localStorage'["bodhi_state"] = Null
                       /\ localStorage'["bodhi_code_verifier"] = Null
        /\ \A c \in Suspended :
              ( Settles(c) /\ last'.kind = "rejected" ) => localStorage' = localStorage ]_vars

\* An exchange that sent its token request with the persisted pair failed, and
\* the pair is still persisted.
C9_Witness ==
    /\ last.op = "exchangeCodeForTokens"
    /\ last.kind = "rejected"
    /\ last.reqs = 1
    /\ last.arg \in requested
    /\ PairPersisted(localStorage, last.arg)

----------------------------------------------------------------------------
\* C11: a buildAuthUrl call made with a resource scope persisted suspends with
\* that scope, and when it resumes it returns a URL whose response_type is
\* "code", whose code_challenge_method is "S256", whose scope list is the five
\* fixed scopes followed by that resource scope, whose state is the state this
\* run persisted and whose code_challenge is derived from the verifier this run
\* persisted.
C11_AuthUrlCarriesPersistedPair ==
    [][ /\ ( buildAuthUrl_call /\ Truthy(localStorage["bodhi_resource_scope"]) )
           => \E c \in BagToSet(pending') :
                 /\ pending' = Suspend(c)
                 /\ c.op = "buildAuthUrl"
                 /\ c.scope = localStorage["bodhi_resource_scope"]
        /\ \A c \in Suspended :
              buildAuthUrl_digestResolves(c)
              => /\ last'.kind = "resolved"
                 /\ Len(last'.val) = 1
                 /\ LET params == last'.val[1].params
                    IN  /\ params.response_type = "code"
                        /\ params.code_challenge_method = "S256"
                        /\ params.scope = << "openid", "email", "profile", "roles",
                                             "scope_user_user", c.scope[1] >>
                        /\ Str(params.state) = localStorage'["bodhi_state"]
                        /\ params.code_challenge =
                              generatePKCEChallenge(localStorage'["bodhi_code_verifier"][1]) ]_vars

\* A second buildAuthUrl call has returned its URL: the URL carries the second
\* pair, which replaced the first in storage.
C11_Witness ==
    /\ last.op = "buildAuthUrl"
    /\ last.kind = "resolved"
    /\ last.val # Null
    /\ last.val[1].params.state = 2
    /\ PairPersisted(localStorage, 2)
    /\ Len(last.val[1].params.scope) = 6

----------------------------------------------------------------------------
\* C12: a requestResourceAccess call sends one POST to the resource-access
\* endpoint with the fixed client id and changes no storage; when the bridge
\* call fails, or its response carries no scope, the call rejects with the
\* wrapped message and the persisted resource scope is unchanged; otherwise the
\* returned scope is persisted and the call resolves with that same value.
C12_RequestAccessPersistsReturnedScope ==
    [][ /\ requestResourceAccess_call
           => /\ last'.val = Str([ method |-> "POST",
                                   endpoint |-> "/bodhi/v1/auth/request-access",
                                   body |-> [ app_client_id |-> APP_CLIENT_ID ] ])
              /\ BagCardinality(pending') = BagCardinality(pending) + 1
              /\ localStorage' = localStorage
        /\ \A c \in Suspended :
              /\ \A e \in BridgeErrors :
                    requestResourceAccess_bridgeRejects(c, e)
                    => /\ last'.kind = "rejected"
                       /\ last'.msg = << "Failed to request resource access:", e >>
                       /\ localStorage' = localStorage
                       /\ BagCardinality(pending') < BagCardinality(pending)
              /\ \A body \in AccessBodies :
                    requestResourceAccess_bridgeResolves(c, body)
                    => /\ BagCardinality(pending') < BagCardinality(pending)
                       /\ IF body.scope = Null
                          THEN /\ last'.kind = "rejected"
                               /\ last'.msg = << "Failed to request resource access:",
                                                 "No scope returned from request-access" >>
                               /\ localStorage' = localStorage
                          ELSE /\ last'.kind = "resolved"
                               /\ last'.val = body.scope
                               /\ localStorage' =
                                     [ localStorage EXCEPT !["bodhi_resource_scope"] = body.scope ]
      ]_vars

\* A requestResourceAccess call has resolved with the scope that is now persisted.
C12_Witness ==
    /\ last.op = "requestResourceAccess"
    /\ last.kind = "resolved"
    /\ last.val = Str("scope_a")
    /\ localStorage["bodhi_resource_scope"] = Str("scope_a")

----------------------------------------------------------------------------
\* The value of key k changes in this step, to a stored string.
Persists(k) == localStorage'[k] # localStorage[k] /\ Truthy(localStorage'[k])

\* C13: an access token is persisted only by the resumption of an
\* exchangeCodeForTokens call, and such a call is suspended only if the state it
\* was given equalled the persisted state and it found a persisted verifier; a
\* state is persisted only by the resumption of a buildAuthUrl call, and such a
\* call is suspended only if it found a resource scope persisted; a resource
\* scope is persisted only by the resumption of a requestResourceAccess call.
C13_AuthenticatedOnlyThroughPhases ==
    [][ /\ Persists("bodhi_access_token")
           => \E c \in Suspended : \E tokenData \in TokenDatas :
                 exchangeCodeForTokens_jsonResolves(c, tokenData)
        /\ \A code \in Codes : \A state \in Nonces :
              ( exchangeCodeForTokens(code, state) /\ pending' # pending )
              => /\ localStorage["bodhi_state"] = Str(state)
                 /\ Truthy(localStorage["bodhi_code_verifier"])
                 /\ \E c \in BagToSet(pending') :
                       pending' = Suspend(c) /\ c.op = "exchangeCodeForTokens" /\ c.state = state
        /\ \A c \in Suspended :
              c.op = "exchangeCodeForTokens" => c.state = c.n /\ c.n \in 1 .. generated
        /\ ( Persists("bodhi_state") \/ Persists("bodhi_code_verifier") )
           => \E c \in Suspended : buildAuthUrl_digestResolves(c) /\ Truthy(c.scope)
        /\ ( buildAuthUrl_call /\ pending' # pending )
           => Truthy(localStorage["bodhi_resource_scope"])
        /\ Persists("bodhi_resource_scope")
           => \E c \in Suspended : \E body \in AccessBodies :
                 requestResourceAccess_bridgeResolves(c, body)
      ]_vars

\* The session is authenticated: the exchange that persisted the token was sent
\* with a pair that buildAuthUrl generated.
C13_Witness ==
    /\ isAuthenticated(localStorage)
    /\ last.op = "exchangeCodeForTokens"
    /\ last.kind = "resolved"
    /\ last.reqs = 1
    /\ last.arg \in requested
    /\ last.arg >= 1

----------------------------------------------------------------------------
\* The storage a fresh sequence leaves when it is run from storage st and flag
\* value flag with every await answered at once: requestResourceAccess is
\* answered with scope, buildAuthUrl generates pair n, exchangeCodeForTokens is
\* called with code and the state n and the token endpoint answers tokenData.
\* The sequence stops at the first call that rejects.
FreshSequence(st, flag, scope, n, code, tokenData) ==
    LET st1 == [ st EXCEPT !["bodhi_resource_scope"] = Str(scope) ]
        b   == buildAuthUrlSync(st1)
        st2 == buildAuthUrlStore(st1, n)
        x   == exchangeSync(st2, flag, code, n)
    IN  IF b.kind # "pending" THEN st1
        ELSE IF x.kind # "pending" THEN st2
        ELSE exchangeStore(st2, tokenData)

\* C14: a run that rejects sends no request and suspends no call; and when it
\* leaves no exchangeCodeForTokens call suspended, a fresh sequence
\* requestResourceAccess, buildAuthUrl, exchangeCodeForTokens with the newly
\* issued state, answered by a token endpoint that returns an access token,
\* leaves the session authenticated.
C14_ErrorIsNotTerminal ==
    [][ last'.kind = "rejected"
        => /\ pending' \sqsubseteq pending
           /\ requested' = requested
           /\ ExchangeCalls(pending') = EmptyBag
              => \A scope \in Scopes : \A code \in Codes : \A tokenData \in TokenDatas :
                    Truthy(tokenData.access_token)
                    => isAuthenticated(FreshSequence(localStorage', isExchangingTokens', scope,
                                                     generated' + 1, code, tokenData)) ]_vars

\* An exchange failed after its request was sent, nothing is suspended, the
\* session is not authenticated and the pair of the failed exchange is still in
\* storage.
C14_Witness ==
    /\ last.op = "exchangeCodeForTokens"
    /\ last.kind = "rejected"
    /\ last.reqs = 1
    /\ pending = EmptyBag
    /\ ~isAuthenticated(localStorage)
    /\ Truthy(localStorage["bodhi_state"])

----------------------------------------------------------------------------
\* The time since loadExtensionClient was called, for loader l that settled.
settledAfter(l) == l.settledAt - l.startTime

\* C15: polls after the first are at least PollInterval after the poll before
\* them; a loadExtensionClient call that fails without having seen the object
\* fails with ExtensionNotFoundError carrying its timeout T, no earlier than T
\* after the call and earlier than T + 2 * PollInterval (for T = 200 within
\* [200, 400)); and the call is not still polling at T + 2 * PollInterval.
C15_NotFoundWithinWindow ==
    [][ /\ \A idThrows \in { "" } \cup IdErrors :
              checkExtension_timer(idThrows) => now - loader.lastPoll >= PollInterval
        /\ ( loader.pc # "rejected" /\ loader'.pc = "rejected" /\ ~loader'.detected )
           => /\ loader'.result = ExtensionNotFoundError(loader'.timeout)
              /\ settledAfter(loader') >= loader'.timeout
              /\ settledAfter(loader') < loader'.timeout + 2 * PollInterval
        /\ loader'.pc = "polling"
           => now' - loader'.startTime < loader'.timeout + 2 * PollInterval
      ]_extensionVars

\* A call with a timeout of 200 has failed with ExtensionNotFoundError at a
\* poll that a late timer ran after 200.
C15_Witness ==
    /\ loader.pc = "rejected"
    /\ loader.result = ExtensionNotFoundError(200)
    /\ loader.timeout = 200
    /\ settledAfter(loader) > 200
    /\ loader.polls >= 3

----------------------------------------------------------------------------
\* C16: once the object has been detected, an identifier that resolves first
\* gives a handle carrying exactly that identifier; the timer fires no earlier
\* than the timeout after the fetch began; and a timer that fires first, a
\* rejection of getExtensionId() and a throw of getExtensionId() each make
\* loadExtensionClient fail with ExtensionTimeoutError and no other error.
C16_IdentifierRace ==
    [][ /\ \A extensionId \in ExtensionIds :
              getExtensionId_resolves(extensionId)
              => /\ loader'.pc = "resolved"
                 /\ loader'.result.kind = "handle"
                 /\ loader'.result.extensionId = extensionId
        /\ \A name \in IdErrors :
              getExtensionId_rejects(name)
              => loader'.pc = "rejected" /\ loader'.result.name = "ExtensionTimeoutError"
        /\ race_timer
           => /\ loader'.pc = "rejected"
              /\ loader'.result.name = "ExtensionTimeoutError"
              /\ now - loader.lastPoll >= loader.timeout
        /\ ( loader'.detected /\ loader'.pc = "rejected" )
           => loader'.result = ExtensionTimeoutError(loader'.timeout)
        /\ loader'.pc \in { "race", "resolved" } => loader'.detected
      ]_extensionVars

\* The object was detected at a later poll and getExtensionId() failed before
\* the timer of the race was due: the call failed with ExtensionTimeoutError.
C16_Witness ==
    /\ loader.pc = "rejected"
    /\ loader.detected
    /\ loader.polls >= 2
    /\ loader.result.name = "ExtensionTimeoutError"
    /\ loader.settledAt < loader.lastPoll + loader.timeout

----------------------------------------------------------------------------
\* C17: a call of sendApiRequest, sendStreamRequest, ping or serverState on a
\* handle while window.bodhiext is absent rejects with the unavailable error
\* and forwards nothing; while it is present the call is forwarded once, with
\* the same arguments, and the handle's promise settles as the bridge's does,
\* with the same value.
C17_HandleForwardsOrFails ==
    [][ /\ \A call \in HandleCalls :
              handle_call(call)
              => IF bodhiext
                 THEN /\ forwarded' = Append(forwarded, call)
                      /\ calls' = calls (+) SetToBag({ call })
                      /\ reply'.kind = "pending"
                 ELSE /\ forwarded' = forwarded
                      /\ calls' = calls
                      /\ reply' = HandleReport(call.fn, "rejected",
                                                "Bodhi extension not available")
        /\ \A call \in HandleCalls : \A answer \in BridgeAnswers :
              handle_settles(call, answer)
              => /\ forwarded' = forwarded
                 /\ reply' = HandleReport(call.fn, answer.kind, answer.val)
      ]_extensionVars

\* After a successful detection and one forwarded call the object is gone, and
\* a call on the handle has failed with the unavailable error.
C17_Witness ==
    /\ loader.pc = "resolved"
    /\ ~bodhiext
    /\ reply.kind = "rejected"
    /\ reply.val = "Bodhi extension not available"
    /\ Len(forwarded) = 1

----------------------------------------------------------------------------
\* Every key of STORAGE_KEYS is removed.
SessionCleared(st) == \A k \in STORAGE_KEYS : st[k] = Null

\* C18: when the bridge becomes ready, the coordinator with an access token and
\* usable cached user info becomes authenticated with that info and suspends
\* no call; with a token and no usable cached info it becomes authenticating
\* and suspends exactly one fetchUserInfo call, made with that token; with no
\* token it stays unauthenticated and suspends no call.  When the fetch
\* resolves the coordinator becomes authenticated with the fetched info; when
\* it rejects the coordinator becomes error and the session is cleared.
C18_BridgeReadyRestoresSession ==
    [][ /\ \A extensionId \in ExtensionIds :
              platformDetected(extensionId)
              => IF ~isAuthenticated(localStorage)
                 THEN /\ authStatus' = "unauthenticated"
                      /\ pending' = pending
                      /\ tasks' = tasks
                 ELSE IF Truthy(getUserInfo(localStorage))
                 THEN /\ authStatus' = "authenticated"
                      /\ userInfo' = getUserInfo(localStorage)
                      /\ pending' = pending
                      /\ tasks' = tasks
                 ELSE /\ authStatus' = "authenticating"
                      /\ BagCardinality(pending') = BagCardinality(pending) + 1
                      /\ \E c \in BagToSet(pending') :
                            /\ pending' = Suspend(c)
                            /\ c.op = "fetchUserInfo"
                            /\ c.token = localStorage["bodhi_access_token"]
        /\ \A t \in BagToSet(tasks) :
              useAuthentication_fetchUserInfo_settled(t)
              => /\ pending' = pending
                 /\ IF t.kind = "resolved"
                    THEN /\ authStatus' = "authenticated"
                         /\ Truthy(t.val)
                         /\ userInfo' = t.val
                    ELSE /\ authStatus' = "error"
                         /\ Truthy(authError')
                         /\ SessionCleared(localStorage')
      ]_<<vars, coordinatorVars>>

\* The page loaded with a token and no usable cached user info, the live fetch
\* failed, and the coordinator is in error with the session cleared.
C18_Witness ==
    /\ platformState.status = "detected"
    /\ authStatus = "error"
    /\ Truthy(authError)
    /\ authError[1][1] = "Failed to fetch user info:"
    /\ SessionCleared(localStorage)
    /\ last.op = "logout"

----------------------------------------------------------------------------
\* C19: a login() made while the coordinator has no bridge client suspends no
\* call, sends no request, assigns no URL to window.location.href, and leaves
\* the status error and the error the guidance message.
C19_LoginWithoutClientIsError ==
    [][ ( useAuthentication_login /\ ~Truthy(platformState.client) )
        => /\ pending' = pending
           /\ last' = last
           /\ href' = href
           /\ authError' = Str(ExtensionNotAvailable)
           /\ authStatus' = "error" ]_<<vars, coordinatorVars>>

----------------------------------------------------------------------------
\* C20: a login() made with a bridge client sets the status authenticating and
\* calls requestResourceAccess; buildAuthUrl is called only by a login whose
\* requestResourceAccess resolved, and window.location.href is assigned only
\* by a login whose buildAuthUrl resolved, with the URL it returned; a login
\* whose requestResourceAccess or buildAuthUrl rejected sets the status error
\* and the error the rejection's message, calls nothing more, assigns no URL
\* and is not run again.
C20_LoginStepsInOrder ==
    [][ /\ ( useAuthentication_login /\ Truthy(platformState.client) )
           => /\ authStatus' = "authenticating"
              /\ authError' = Null
              /\ last'.op = "requestResourceAccess"
              /\ last'.kind = "pending"
              /\ generated' = generated
              /\ href' = href
        /\ \A t \in BagToSet(tasks) :
              useAuthentication_login_accessSettled(t)
              => IF t.kind = "rejected"
                 THEN /\ authStatus' = "error"
                      /\ authError' = Str(t.msg)
                      /\ t.msg[1] = "Failed to request resource access:"
                      /\ pending' = pending
                      /\ generated' = generated
                      /\ href' = href
                      /\ tasks' = tasks (-) SetToBag({ t })
                 ELSE /\ last'.op = "buildAuthUrl"
                      /\ href' = href
        /\ \A t \in BagToSet(tasks) :
              useAuthentication_login_buildSettled(t)
              => IF t.kind = "rejected"
                 THEN /\ authStatus' = "error"
                      /\ authError' = Str(t.msg)
                      /\ pending' = pending
                      /\ href' = href
                      /\ tasks' = tasks (-) SetToBag({ t })
                 ELSE /\ Truthy(t.val)
                      /\ href' = t.val
                      /\ pending' = pending
        /\ generated' # generated
           => \E t \in BagToSet(tasks) :
                 useAuthentication_login_accessSettled(t) /\ t.kind = "resolved"
        /\ href' # href
           => \E t \in BagToSet(tasks) :
                 useAuthentication_login_buildSettled(t) /\ t.kind = "resolved"
      ]_<<vars, coordinatorVars>>

\* A login has run to its navigation: the URL assigned carries the persisted
\* state, and the status is still authenticating.
C20_Witness ==
    /\ Truthy(href)
    /\ authStatus = "authenticating"
    /\ PairPersisted(localStorage, href[1].params.state)
    /\ tasks = EmptyBag

----------------------------------------------------------------------------
\* C21: the coordinator's logout(), called in any status, suspends no call and
\* sends no request, and in the state it leaves the status is unauthenticated,
\* userInfo and error are null, and every persisted session key is absent.
C21_LogoutResetsCoordinator ==
    [][ useAuthentication_logout
        => /\ pending' = pending
           /\ tasks' = tasks
           /\ href' = href
           /\ authStatus' = "unauthenticated"
           /\ userInfo' = Null
           /\ authError' = Null
           /\ SessionCleared(localStorage') ]_<<vars, coordinatorVars>>

\* logout() was called while a login was suspended at requestResourceAccess,
\* which had set the status authenticating.
C21_Witness ==
    /\ last.op = "logout"
    /\ authStatus = "unauthenticated"
    /\ userInfo = Null
    /\ authError = Null
    /\ SessionCleared(localStorage)
    /\ \E t \in BagToSet(tasks) : t.op = "login" /\ ~t.settled

----------------------------------------------------------------------------
\* C22: when the component has unmounted while the call it awaits was pending,
\* the continuation that runs once the call has settled, resolved or rejected,
\* commits nothing: detectExtension leaves the platform state and the
\* coordinator as they are, processCallback leaves the page state as it is and
\* arms no redirect, and a redirect timer armed earlier does not navigate.  The
\* unmount itself leaves the awaited call as it is: nothing is taken from the
\* suspended manager calls, the loader or the tasks.
C22_UnmountedCommitsNothing ==
    [][ /\ ( detectExtension_settled /\ ~detection.mounted )
           => /\ platformState' = platformState
              /\ UNCHANGED <<authStatus, userInfo, authError, href, tasks>>
        /\ \A t \in BagToSet(tasks) :
              ( CallbackPage_settled(t) /\ ~callbackPage.mounted )
              => /\ callbackPage'.state = callbackPage.state
                 /\ callbackPage'.navigated = callbackPage.navigated
                 /\ callbackPage'.pc \in { "done", callbackPage.pc }
        /\ ( CallbackPage_timer /\ ~callbackPage.mounted )
           => callbackPage'.navigated = callbackPage.navigated
        /\ usePlatformDetection_unmount
           => UNCHANGED <<loader, platformState>>
        /\ CallbackPage_unmount
           => UNCHANGED <<pending, tasks, localStorage, isExchangingTokens>>
      ]_<<vars, extensionVars, coordinatorVars, pageVars>>

\* The callback page unmounted while its exchange was awaiting the token
\* endpoint; the exchange went on and persisted the token, and the page still
\* shows the processing state and has not navigated.
C22_Witness ==
    /\ ~callbackPage.mounted
    /\ callbackPage.pc = "done"
    /\ callbackPage.state.status = "processing"
    /\ ~callbackPage.navigated
    /\ isAuthenticated(localStorage)
    /\ last.op = "exchangeCodeForTokens" /\ last.kind = "resolved"

\* The home page unmounted while loadExtensionClient was polling; the loader
\* went on and settled, and the platform state is still detecting.
C22_WitnessDetection ==
    /\ ~detection.mounted
    /\ detection.pc = "done"
    /\ loader.pc \in { "resolved", "rejected" }
    /\ loader.polls > 1
    /\ platformState.status = "detecting"

----------------------------------------------------------------------------
\* The message has the words "not detected".
NotDetected(msg) ==
    \E i \in 1 .. Len(msg) - 1 : msg[i] = "not" /\ msg[i + 1] = "detected"

\* C23: when no poll of the detection sees the capability object, the status
\* is detecting until the awaited loader has settled, it is never detected, and
\* while the hook stays mounted it becomes error: the error carries a message
\* with the words "not detected", and it is set no earlier than one and no later
\* than two detection timeouts after mounting.
C23_AbsentBridgeEndsInError ==
    /\ [] ( detection.pc \in { "idle", "awaiting" } => platformState.status = "detecting" )
    /\ [] ( platformState.status = "detected" => loader.detected )
    /\ [] ( ( platformState.status = "error" /\ ~loader.detected )
            => /\ NotDetected(platformState.error[1])
               /\ now - loader.startTime >= loader.timeout
               /\ now - loader.startTime <= 2 * loader.timeout )
    /\ ( detection.pc = "awaiting" )
         ~> ( platformState.status = "error" \/ loader.detected \/ ~detection.mounted )

\* The object never appeared: after some polls the loader gave up and the hook
\* set the error state, later than the timeout.
C23_Witness ==
    /\ platformState.status = "error"
    /\ ~loader.detected
    /\ loader.polls > 1
    /\ NotDetected(platformState.error[1])
    /\ now - loader.startTime > loader.timeout

----------------------------------------------------------------------------
\* C24: getUserInfo() always returns: null when the entry is missing or its
\* text does not parse, the parsed value otherwise (the value setUserInfo was
\* given, when the entry is its text), and it leaves the storage as it is.
C24_GetUserInfoNeverRaises ==
    [][ getUserInfo_call
        => LET entry == localStorage["bodhi_user_info"]
           IN  /\ last'.kind = "resolved"
               /\ localStorage' = localStorage
               /\ ( entry = Null \/ ~JSONwellFormed(entry[1]) ) => last'.val = Str(Null)
               /\ ( entry # Null /\ JSONwellFormed(entry[1]) )
                  => last'.val = Str(Str(JSONparse(entry[1])))
               /\ \A info \in UserInfos :
                     entry = Str(JSONstringify(info)) => last'.val = Str(Str(info)) ]_vars

\* getUserInfo() returned null for an entry that does not parse, and the entry
\* is still stored.
C24_Witness ==
    /\ last.op = "getUserInfo"
    /\ last.kind = "resolved"
    /\ last.val = Str(Null)
    /\ localStorage["bodhi_user_info"] # Null
    /\ ~JSONwellFormed(localStorage["bodhi_user_info"][1])

----------------------------------------------------------------------------
\* The calls of fetchUserInfo suspended at the bridge.
UserInfoRequestsInFlight(p) == { c \in BagToSet(p) : c.op = "fetchUserInfo" }

\* C25: fetchUserInfo called with no persisted access token rejects in the
\* call, sends nothing and writes nothing; called with a token it sends one GET
\* to /bodhi/v1/user with the token as Bearer; when the bridge resolves it
\* persists and returns the UserInfo of the body, with "Unknown" for a missing
\* email and "user" for a missing role, and sends nothing more; when the bridge
\* rejects it rejects with a message that wraps the bridge's and writes nothing.
C25_FetchUserInfoContract ==
    [][ /\ fetchUserInfo_call
           => LET accessToken == localStorage["bodhi_access_token"]
              IN  /\ localStorage' = localStorage
                  /\ accessToken = Null
                     => /\ last'.kind = "rejected"
                        /\ last'.msg = << "No access token available" >>
                        /\ pending' = pending
                  /\ accessToken # Null
                     => /\ last'.kind = "pending"
                        /\ BagCardinality(pending') = BagCardinality(pending) + 1
                        /\ \E c \in UserInfoRequestsInFlight(pending') :
                              /\ pending' = pending (+) SetToBag({ c })
                              /\ c.token = accessToken
                        /\ last'.val[1].method = "GET"
                        /\ last'.val[1].endpoint = "/bodhi/v1/user"
                        /\ last'.val[1].headers.Authorization = << "Bearer", accessToken[1] >>
        /\ \A c \in Suspended, body \in UserBodies :
              fetchUserInfo_bridgeResolves(c, body)
              => \E info \in UserInfos :
                    /\ info.email = IF body.email = Null THEN "Unknown" ELSE body.email[1]
                    /\ info.role = IF body.role = Null THEN "user" ELSE body.role[1]
                    /\ last'.kind = "resolved"
                    /\ last'.val = Str(info)
                    /\ getUserInfo(localStorage') = Str(info)
                    /\ \A k \in STORAGE_KEYS \ { "bodhi_user_info" } :
                          localStorage'[k] = localStorage[k]
                    /\ pending' = pending (-) SetToBag({ c })
        /\ \A c \in Suspended, e \in BridgeErrors :
              fetchUserInfo_bridgeRejects(c, e)
              => /\ last'.kind = "rejected"
                 /\ Contains(last'.msg, e)
                 /\ last'.msg # << e >>
                 /\ localStorage' = localStorage
                 /\ pending' = pending (-) SetToBag({ c }) ]_vars

\* The bridge answered with a body that has neither email nor role: the call
\* returned the UserInfo with the defaults, and it is the cached user info.
C25_Witness ==
    /\ last.op = "fetchUserInfo"
    /\ last.kind = "resolved"
    /\ last.val[1].email = "Unknown"
    /\ last.val[1].role = "user"
    /\ getUserInfo(localStorage) = last.val

\* fetchUserInfo was called without an access token and rejected in the call.
C25_WitnessNoToken ==
    /\ last.op = "fetchUserInfo"
    /\ last.kind = "rejected"
    /\ last.msg = << "No access token available" >>
    /\ ~isAuthenticated(localStorage)

----------------------------------------------------------------------------
\* C26: a persisted resource scope stays persisted through every step that is
\* not a logout; the steps of buildAuthUrl, exchangeCodeForTokens,
\* fetchUserInfo, setUserInfo and getUserInfo leave the entry as it is, and
\* a logout removes it.
C26_ScopeOutlivesAllButLogout ==
    [][ LET scope == localStorage["bodhi_resource_scope"]
            scope1 == localStorage'["bodhi_resource_scope"]
        IN  /\ ( Truthy(scope) /\ ~logout ) => Truthy(scope1)
            /\ ( \/ buildAuthUrl_call
                 \/ \E c \in Suspended : buildAuthUrl_digestResolves(c)
                 \/ last'.op \in { "buildAuthUrl", "exchangeCodeForTokens", "fetchUserInfo",
                                   "setUserInfo", "getUserInfo" } )
               => scope1 = scope
            /\ logout => scope1 = Null ]_vars

\* requestResourceAccess persisted scope_a, buildAuthUrl persisted a pair, an
\* exchange with that pair succeeded, and the scope is still there.
C26_Witness ==
    /\ localStorage["bodhi_resource_scope"] = Str("scope_a")
    /\ last.op = "exchangeCodeForTokens"
    /\ last.kind = "resolved"
    /\ last.reqs = 1
    /\ localStorage["bodhi_access_token"] = Str("at_1")

----------------------------------------------------------------------------
\* C28: a call of exchangeCodeForTokens that gets past the two guards and reads
\* a persisted state equal to the supplied one and no code verifier rejects
\* with "Code verifier not found", in the call, with no token-endpoint request
\* sent and nothing written; when the state does not match either, the call
\* rejects with "Invalid state parameter": the state is checked first.
C28_MissingVerifierRejects ==
    [][ \A code \in Codes, state \in Nonces :
          ( /\ exchangeCodeForTokens(code, state)
            /\ PassesGuards
            /\ localStorage["bodhi_code_verifier"] = Null )
          => /\ last'.kind = "rejected"
             /\ last'.reqs = 0
             /\ NoRequestIssued
             /\ pending' = pending
             /\ requested' = requested
             /\ localStorage' = localStorage
             /\ last'.msg = IF StateMismatch(state)
                            THEN << "Invalid state parameter" >>
                            ELSE << "Code verifier not found" >> ]_vars

\* The persisted state 1 was supplied, no verifier was persisted, and the call
\* rejected with "Code verifier not found" without a request.
C28_Witness ==
    /\ last.op = "exchangeCodeForTokens"
    /\ last.kind = "rejected"
    /\ last.msg = << "Code verifier not found" >>
    /\ last.arg = 1
    /\ localStorage["bodhi_state"] = Str(1)
    /\ localStorage["bodhi_code_verifier"] = Null
    /\ pending = EmptyBag
    /\ requested = {}

\* Neither a matching state nor a verifier was persisted: the call rejected
\* with the message of the state check.
C28_WitnessStateFirst ==
    /\ last.op = "exchangeCodeForTokens"
    /\ last.kind = "rejected"
    /\ last.msg = << "Invalid state parameter" >>
    /\ localStorage["bodhi_state"] # Str(last.arg)
    /\ localStorage["bodhi_code_verifier"] = Null

----------------------------------------------------------------------------
\* C29: every run of an exchangeCodeForTokens call that does not end in
\* success (a rejection in the call, the wait for the response body, a
\* rejection after the request) leaves all six persisted entries as they are;
\* calls are made one after another, so a call that fails leaves the storage
\* as it was before the call.
C29_FailedExchangeWritesNothing ==
    [][ /\ ( last'.op = "exchangeCodeForTokens" /\ last'.kind \in { "rejected", "pending" } )
           => localStorage' = localStorage
        /\ \A c \in Suspended :
              ( \/ \E e \in NetworkErrors : exchangeCodeForTokens_fetchRejects(c, e)
                \/ \E errorText \in ErrorTexts : exchangeCodeForTokens_textResolves(c, errorText)
                \/ \E e \in BodyErrors : exchangeCodeForTokens_bodyRejects(c, e)
                \/ \E tokenData \in TokenDatas :
                      /\ exchangeCodeForTokens_jsonResolves(c, tokenData)
                      /\ ~Truthy(tokenData.access_token) )
              => /\ last'.kind = "rejected"
                 /\ localStorage' = localStorage
                 /\ pending' = EmptyBag ]_vars

\* The token endpoint answered the request of pair 1 with an error status; the
\* pair, the scope, the cached user info and the old refresh token are still
\* persisted, and there is no access token.
C29_Witness ==
    /\ last.op = "exchangeCodeForTokens"
    /\ last.kind = "rejected"
    /\ last.reqs = 1
    /\ Len(last.msg) = 3
    /\ localStorage["bodhi_state"] = Str(last.arg)
    /\ localStorage["bodhi_code_verifier"] = Str(last.arg)
    /\ localStorage["bodhi_resource_scope"] # Null
    /\ localStorage["bodhi_user_info"] # Null
    /\ localStorage["bodhi_refresh_token"] = Str("rt_0")
    /\ localStorage["bodhi_access_token"] = Null

\* The token endpoint answered with a success status and a body without an
\* access token; the pair is still persisted.
C29_WitnessNoAccessToken ==
    /\ last.op = "exchangeCodeForTokens"
    /\ last.kind = "rejected"
    /\ last.msg = << "No access token received" >>
    /\ localStorage["bodhi_state"] = Str(last.arg)
    /\ localStorage["bodhi_code_verifier"] = Str(last.arg)
    /\ localStorage["bodhi_access_token"] = Null

----------------------------------------------------------------------------
\* base64url without padding (RFC 4648 section 5), bit by bit: the bits of the
\* bytes, most significant first, are cut into groups of six, the last group
\* filled up with zero bits, and each group is a character of the URL-safe
\* alphabet.
Base64UrlAlphabet ==
    << "A", "B", "C", "D", "E", "F", "G", "H", "I", "J", "K", "L", "M", "N", "O", "P",
       "Q", "R", "S", "T", "U", "V", "W", "X", "Y", "Z", "a", "b", "c", "d", "e", "f",
       "g", "h", "i", "j", "k", "l", "m", "n", "o", "p", "q", "r", "s", "t", "u", "v",
       "w", "x", "y", "z", "0", "1", "2", "3", "4", "5", "6", "7", "8", "9", "-", "_" >>

Base64UrlUnpadded(bytes) ==
    LET bit(p) ==
            IF p > 8 * Len(bytes) THEN 0
            ELSE ( bytes[ ( ( p - 1 ) \div 8 ) + 1 ] \div ( 2 ^ ( 7 - ( ( p - 1 ) % 8 ) ) ) ) % 2
        sextet(m) ==
            LET p == 6 * ( m - 1 )
            IN  32 * bit(p + 1) + 16 * bit(p + 2) + 8 * bit(p + 3)
                + 4 * bit(p + 4) + 2 * bit(p + 5) + bit(p + 6)
    IN  [ m \in 1 .. ( 8 * Len(bytes) + 5 ) \div 6 |-> Base64UrlAlphabet[ sextet(m) + 1 ] ]

\* C27: the challenge generatePKCEChallenge returns for a digest has none of
\* the characters "+", "/" and "=", and is the unpadded base64url text of the
\* digest; a second call for the same digest returns the same challenge.
C27_ChallengeIsBase64Url ==
    /\ [] ( pkce.challenge # Null
            => /\ \A i \in 1 .. Len(pkce.challenge[1]) :
                     pkce.challenge[1][i] \notin { "+", "/", "=" }
               /\ pkce.challenge[1] = Base64UrlUnpadded(pkce.digest) )
    /\ [][ ( generatePKCEChallenge_digestResolves /\ pkce.challenge # Null )
           => pkce'.challenge = pkce.challenge ]_pkceVars

\* The challenge of a digest whose base64 text has "+", "/" and the padding:
\* the challenge has "-" and "_" in their places and is one character shorter.
C27_Witness ==
    /\ pkce.challenge # Null
    /\ \E i \in 1 .. Len(btoa(pkce.digest)) : btoa(pkce.digest)[i] = "+"
    /\ \E i \in 1 .. Len(btoa(pkce.digest)) : btoa(pkce.digest)[i] = "/"
    /\ btoa(pkce.digest)[Len(btoa(pkce.digest))] = "="
    /\ \E i \in 1 .. Len(pkce.challenge[1]) : pkce.challenge[1][i] = "-"
    /\ \E i \in 1 .. Len(pkce.challenge[1]) : pkce.challenge[1][i] = "_"
    /\ Len(pkce.challenge[1]) = Len(btoa(pkce.digest)) - 1

----------------------------------------------------------------------------
\* C30: a call of loadExtensionClient that is polling or racing settles in the
\* end, whether or not getExtensionId() settles; a settled call has a handle,
\* an ExtensionNotFoundError or an ExtensionTimeoutError; it has the
\* ExtensionNotFoundError only if no poll saw the object, and the handle or the
\* ExtensionTimeoutError only if a poll saw it.
C30_LoaderSettlesThreeWays ==
    /\ [] ( loader.pc \in { "resolved", "rejected" }
            => /\ \/ loader.pc = "resolved" /\ loader.result.kind = "handle"
                  \/ /\ loader.pc = "rejected" /\ loader.result.kind = "error"
                     /\ loader.result.name \in { "ExtensionNotFoundError",
                                                 "ExtensionTimeoutError" }
               /\ loader.result.name = "ExtensionNotFoundError" => ~loader.detected
               /\ loader.result.name = "ExtensionTimeoutError" => loader.detected
               /\ loader.result.kind = "handle" => loader.detected )
    /\ ( loader.pc \in { "polling", "race" } ) ~> ( loader.pc \in { "resolved", "rejected" } )

\* The object was seen at a later poll, getExtensionId() never settled, and the
\* timer of the race ended the call with ExtensionTimeoutError.
C30_Witness ==
    /\ loader.pc = "rejected"
    /\ loader.detected
    /\ loader.polls >= 2
    /\ loader.result = ExtensionTimeoutError(loader.timeout)
    /\ loader.settledAt >= loader.lastPoll + loader.timeout

----------------------------------------------------------------------------
\* C31: processCallback calls exchangeCodeForTokens exactly when the query has
\* no error parameter and has both code and state, and then with that code and
\* state; otherwise the run ends in the error state, the manager is not called
\* and no request is sent.
C31_ExchangeOnlyWithCodeAndState ==
    [][ \A params \in SearchParams :
          CallbackPage_mount(params)
          => IF params.error = Null /\ params.code # Null /\ params.state # Null
             THEN /\ last'.op = "exchangeCodeForTokens"
                  /\ last'.arg = params.state[1]
                  /\ callbackPage'.pc = "awaiting"
                  /\ callbackPage'.state.status = "processing"
             ELSE /\ callbackPage'.state.status = "error"
                  /\ callbackPage'.pc = "done"
                  /\ UNCHANGED <<vars, tasks>>
      ]_<<vars, extensionVars, coordinatorVars, pageVars>>

\* The redirect carried an error together with a code and the persisted state:
\* the page is in its error state and the manager was never called.
C31_Witness ==
    /\ callbackPage.mounted
    /\ callbackPage.state.status = "error"
    /\ callbackPage.state.message = << "User denied access to the application" >>
    /\ last.op = "load"
    /\ pending = EmptyBag
    /\ requested = {}
    /\ localStorage["bodhi_state"] = Str(1)

\* The redirect carried a code and a state and no error: the exchange was
\* called and its request sent.
C31_WitnessCalled ==
    /\ callbackPage.pc = "awaiting"
    /\ last.op = "exchangeCodeForTokens"
    /\ last.kind = "pending"
    /\ requested = { 1 }

----------------------------------------------------------------------------
\* The supplied state is the state of a buildAuthUrl call made before the call
\* whose pair is persisted: two calls produced different states, and the later
\* one's is the persisted one.
EarlierPair(state) ==
    /\ state >= 1
    /\ Truthy(localStorage["bodhi_state"])
    /\ state < localStorage["bodhi_state"][1]

C32_ReplacedInCallOrder ==
    [][ \A c \in Suspended :
          ( buildAuthUrl_digestResolves(c) /\ Truthy(localStorage["bodhi_state"]) )
          => localStorage["bodhi_state"][1] < c.n ]_vars

----------------------------------------------------------------------------
\* The byte values line 25 maps to the letter.
ByteValuesOf(letter) == { byte \in Bytes : letterOf(byte) = letter }

\* The first n letters of the alphabet.
FirstLetters(n) == { Letters[i] : i \in 1 .. n }

AllLetters == FirstLetters(Len(Letters))

\* Each character of the string returned is the letter with index byte mod 26.
MappedByResidue ==
    /\ Len(random.text[1]) = Len(random.array)
    /\ \A i \in 1 .. Len(random.array) :
          random.text[1][i] = Letters[( random.array[i] % 26 ) + 1]

\* C33 as stated: each character generateRandomString returns is the letter
\* with index byte mod 26, the letters are not produced by equally many byte
\* values, and a character among the first four letters (a to d) is produced by
\* more byte values than each of the other letters.
C33_FirstFourFavored ==
    random.text # Null
    => /\ MappedByResidue
       /\ \E l1, l2 \in AllLetters :
             Cardinality(ByteValuesOf(l1)) # Cardinality(ByteValuesOf(l2))
       /\ \A i \in 1 .. Len(random.text[1]) :
             random.text[1][i] \in FirstLetters(4)
             => \A other \in AllLetters \ FirstLetters(4) :
                   Cardinality(ByteValuesOf(random.text[1][i]))
                      > Cardinality(ByteValuesOf(other))

\* C33 as amended: each character generateRandomString returns is the letter
\* with index byte mod 26, the letters are not produced by equally many byte
\* values, and the favoured letters are the first 22 (a to v, 22 = 256 mod 26):
\* each is produced by 10 byte values, and each of the last four (w to z) by 9.
C33_FirstTwentyTwoFavored ==
    random.text # Null
    => /\ MappedByResidue
       /\ \E l1, l2 \in AllLetters :
             Cardinality(ByteValuesOf(l1)) # Cardinality(ByteValuesOf(l2))
       /\ \A i \in 1 .. Len(random.text[1]) :
             Cardinality(ByteValuesOf(random.text[1][i]))
                = IF random.text[1][i] \in FirstLetters(256 % 26) THEN 10 ELSE 9

\* The string of the bytes 22 and 234 was returned: a letter produced by nine
\* byte values, then the letter a from the tenth byte value that produces it.
C33_Witness ==
    /\ random.array = << 22, 234 >>
    /\ random.text = Str(<< "w", "a" >>)
    /\ Cardinality(ByteValuesOf("w")) = 9
    /\ Cardinality(ByteValuesOf("a")) = 10

\* A string with the letter e was returned: e is outside the first four
\* letters and is produced by as many byte values as a.
C33_WitnessFifthLetter ==
    /\ random.text = Str(<< "e" >>)
    /\ Cardinality(ByteValuesOf("e")) = Cardinality(ByteValuesOf("a"))

----------------------------------------------------------------------------
\* C34: whenever the processing state of the callback page is success, an
\* access token is persisted; the effect may run twice, the second run calling
\* exchangeCodeForTokens while the exchange of the first is in flight.
C34_SuccessMeansAuthenticated ==
    callbackPage.state.status = "success" => isAuthenticated(localStorage)

\* The page shows success after its effect ran twice, no access token is
\* persisted, and the exchange of the first run is still in flight.
C34_SuccessWhileInFlight ==
    /\ callbackPage.state.status = "success"
    /\ callbackPage.run = 1
    /\ ~isAuthenticated(localStorage)
    /\ \E c \in Suspended : c.op = "exchangeCodeForTokens"

\* The page shows success after its effect ran twice, and the exchange of the
\* first run has failed: the call is over and no access token is persisted.
C34_SuccessAfterFailure ==
    /\ callbackPage.state.status = "success"
    /\ callbackPage.run = 1
    /\ ~isAuthenticated(localStorage)
    /\ pending = EmptyBag
    /\ ~isExchangingTokens
    /\ last.op = "exchangeCodeForTokens"
    /\ last.kind = "rejected"

\* With one run of the effect the success state is set only with an access
\* token persisted.
C34_SingleRunSuccessMeansAuthenticated ==
    ( callbackPage.state.status = "success" /\ callbackPage.run = 0 )
    => isAuthenticated(localStorage)

----------------------------------------------------------------------------
\* C35: whenever an exchangeCodeForTokens call has just returned without
\* error, an access token is persisted, for every interleaving of exchange
\* calls and logout.
C35_ResolvedMeansAuthenticated ==
    ( last.op = "exchangeCodeForTokens" /\ last.kind = "resolved" )
    => isAuthenticated(localStorage)

\* An exchangeCodeForTokens call has just returned without error while another
\* exchange awaits the token endpoint, and no access token is persisted.
C35_ResolvedWithoutToken ==
    /\ last.op = "exchangeCodeForTokens"
    /\ last.kind = "resolved"
    /\ ~isAuthenticated(localStorage)
    /\ isExchangingTokens
    /\ TokenRequestsInFlight(pending) = 1

\* A call that returns without error and was not stopped by the in-progress
\* guard leaves an access token persisted.
C35_ResolvedPastGuardMeansAuthenticated ==
    [][ /\ \A code \in Codes, state \in Nonces :
              ( exchangeCodeForTokens(code, state) /\ last'.kind = "resolved"
                /\ ~isExchangingTokens )
              => isAuthenticated(localStorage')
        /\ \A c \in Suspended, tokenData \in TokenDatas :
              ( exchangeCodeForTokens_jsonResolves(c, tokenData) /\ last'.kind = "resolved" )
              => isAuthenticated(localStorage') ]_vars

----------------------------------------------------------------------------
\* C36: whenever the status of the coordinator is authenticated, an access
\* token is persisted and the userInfo of the coordinator is not null, under
\* any interleaving of login, logout and the session check with its user-info
\* fetch.
C36_AuthenticatedHasSession ==
    authStatus = "authenticated"
    => /\ isAuthenticated(localStorage)
       /\ userInfo # Null

\* The status is authenticated with user info set and no access token
\* persisted: the user-info fetch of the session check resolved after a logout.
C36_AuthenticatedWithoutToken ==
    /\ authStatus = "authenticated"
    /\ userInfo # Null
    /\ ~isAuthenticated(localStorage)
    /\ Truthy(localStorage["bodhi_user_info"])
    /\ last.op = "fetchUserInfo"

\* Whenever the status of the coordinator is authenticated, its userInfo is not
\* null.
C36_AuthenticatedHasUserInfo ==
    authStatus = "authenticated" => userInfo # Null

----------------------------------------------------------------------------
\* C37: after logout() has returned isAuthenticated() is false, and it stays
\* false until a later call to exchangeCodeForTokens is made: when the response
\* of an exchange that was in flight arrives as the first step after the
\* logout, no access token is persisted.
C37_InFlightExchangePersistsNothing ==
    [][ /\ logout => ~isAuthenticated(localStorage')
        /\ \A c \in Suspended, tokenData \in TokenDatas :
              ( last.op = "logout" /\ exchangeCodeForTokens_jsonResolves(c, tokenData) )
              => ~isAuthenticated(localStorage') ]_vars

\* After logout() has returned isAuthenticated() is false, and every step but
\* the arrival of a token response leaves it false.
C37_OnlyTokenResponsePersists ==
    [][ /\ logout => ~isAuthenticated(localStorage')
        /\ ( ~isAuthenticated(localStorage) /\ isAuthenticated(localStorage') )
           => \E c \in Suspended, tokenData \in TokenDatas :
                 exchangeCodeForTokens_jsonResolves(c, tokenData) ]_vars

\* The response of an exchange arrived after a logout had cleared the flag and
\* the storage, and the access token it carried is persisted.
C37_PersistedAfterLogout ==
    /\ last.op = "exchangeCodeForTokens"
    /\ last.kind = "resolved"
    /\ isAuthenticated(localStorage)
    /\ ~Truthy(localStorage["bodhi_resource_scope"])
    /\ ~Truthy(localStorage["bodhi_state"])
    /\ pending = EmptyBag

----------------------------------------------------------------------------
\* C38: in every reachable state the persisted state and code verifier are
\* both present or both absent, and when present they are the pair of one
\* buildAuthUrl invocation, one that has been made; buildAuthUrl calls may
\* overlap each other, an exchange or a logout.
C38_PairWrittenTogether ==
    /\ Truthy(localStorage["bodhi_state"]) <=> Truthy(localStorage["bodhi_code_verifier"])
    /\ Truthy(localStorage["bodhi_state"])
       => \E n \in 1 .. generated : PairPersisted(localStorage, n)

\* Two buildAuthUrl calls overlapped and the pair of the first is the persisted
\* one: the second call persisted its pair first.
C38_Witness ==
    /\ generated = 2
    /\ PairPersisted(localStorage, 1)
    /\ last.op = "buildAuthUrl" /\ last.kind = "resolved" /\ last.arg = 1
    /\ \A c \in Suspended : c.op # "buildAuthUrl"

\* A buildAuthUrl call persisted its pair while an exchange that had read the
\* earlier pair was awaiting the token endpoint, after a logout.
C38_WitnessOverExchange ==
    /\ PairPersisted(localStorage, 2)
    /\ \E c \in Suspended : c.op = "exchangeCodeForTokens" /\ c.state = 1
    /\ ~Truthy(localStorage["bodhi_resource_scope"])

----------------------------------------------------------------------------
\* C39: in every reachable state, whenever cached user info is persisted an
\* access token is persisted too, under any interleaving of fetchUserInfo,
\* exchangeCodeForTokens and logout.
C39_UserInfoOnlyWithSession ==
    Truthy(localStorage["bodhi_user_info"]) => isAuthenticated(localStorage)

\* The response of the user-info request arrived after a logout: user info is
\* persisted, nothing else is, and no call is suspended.
C39_UserInfoWithoutSession ==
    /\ Truthy(localStorage["bodhi_user_info"])
    /\ \A k \in STORAGE_KEYS \ { "bodhi_user_info" } : ~Truthy(localStorage[k])
    /\ last.op = "fetchUserInfo" /\ last.kind = "resolved"
    /\ pending = EmptyBag

\* User info is persisted only by the arrival of the response to a user-info
\* request, and such a request is sent only while an access token is
\* persisted.
C39_UserInfoOnlyFromAuthenticatedFetch ==
    [][ /\ Persists("bodhi_user_info")
           => \E c \in Suspended, body \in UserBodies : fetchUserInfo_bridgeResolves(c, body)
        /\ ( fetchUserInfo_call /\ last'.kind = "pending" )
           => isAuthenticated(localStorage) ]_vars

----------------------------------------------------------------------------
\* C40: in every reachable state of platform detection the status is detected
\* exactly when client and extensionId are not null, and then error is null;
\* the status error has client and extensionId null and error not null; the
\* status changes only from detecting to detected or from detecting to error,
\* and is never setup or timeout.
C40_DetectionStateShape ==
    /\ [] ( /\ platformState.status \in { "detecting", "detected", "error" }
            /\ platformState.status = "detected"
               <=> ( platformState.client # Null /\ platformState.extensionId # Null )
            /\ platformState.status = "detected"
               => /\ platformState.error = Null
                  /\ platformState.extensionId = Str(loader.result.extensionId)
            /\ platformState.status = "error"
               => /\ platformState.client = Null
                  /\ platformState.extensionId = Null
                  /\ platformState.error # Null
            /\ platformState.client # Null <=> platformState.extensionId # Null )
    /\ [][ platformState'.status # platformState.status
           => /\ platformState.status = "detecting"
              /\ platformState'.status \in { "detected", "error" }
              /\ detectExtension_settled ]_<<vars, extensionVars, coordinatorVars, pageVars>>

\* The hook found the extension: the status is detected with the handle and the
\* identifier getExtensionId() resolved with.
C40_Witness ==
    /\ platformState.status = "detected"
    /\ platformState.client = Str(ExtensionClientImpl("ext_b"))
    /\ platformState.extensionId = Str("ext_b")
    /\ platformState.error = Null
    /\ detection.pc = "done"

\* The hook gave up: the status is error with the message of the error, and no
\* handle and no identifier.
C40_WitnessError ==
    /\ platformState.status = "error"
    /\ platformState.client = Null
    /\ platformState.extensionId = Null
    /\ platformState.error # Null
    /\ detection.pc = "done"


====
